---- MODULE Spec2Model ----
(***************************************************************************)
(* DenoSaur: generation of a TypeScript client and of type declarations    *)
(* from an OpenAPI document.                                               *)
(*                                                                         *)
(* Text is modelled by TLA+ strings, on which TLC evaluates Len, \o and    *)
(* SubSeq; a character is a string of length one.  JavaScript values that  *)
(* the code probes dynamically (schemas) are tagged records, see Obj, Arr. *)
(***************************************************************************)
EXTENDS Integers, Sequences, FiniteSets, TLC

VARIABLES
    inSchema,      \* SpecSchema: the schema handed to the resolvers
    inTypeName,    \* SpecSchema: the name of the schema in components.schemas
    inOperation,   \* SpecSchema: the operation handed to getQueryParamsType
    clientType,    \* result of the client generator's convertSchemaToType
    declType,      \* result of the type-declaration module's convertSchemaToType
    interfaceText, \* result of generateInterface
    queryType,     \* result of getQueryParamsType
    document,      \* Spec: the parsed document (apiData)
    pc,            \* Spec: position in generateClientFromOpenAPI
    analysed,      \* Spec: pathInfos, the PathInfo[] built by the analysis loop
    resourceGroups,\* Spec: verb -> resource name -> PathInfo[] (as a list of groups)
    verbIndex,     \* Spec: index into httpMethods of the verb block being emitted
    groupIndex,    \* Spec: index of the next group of the current verb
    directMethods, \* Spec: directMethods of the current verb block
    fallbackMethods,\* Spec: fallbackMethods of the current verb block
    emitted,       \* Spec: the members emitted so far, with the PathInfo of each
    clientCode,    \* Spec: the verb blocks of the generated client
    call,          \* SpecCall: the helper called and its arguments
    returned,      \* SpecCall: the values returned so far
    run,           \* SpecGenerate: the spec file and the options of the call
    step,          \* SpecGenerate: position in generateFromOpenAPI
    effects,       \* SpecGenerate: the file-system operations performed so far
    files,         \* SpecGenerate: the output directory and the artifacts in it
    outcome,       \* SpecGenerate: apiData, contents and GenerateResult of the call
    now,           \* SpecGenerate: the clock read by new Date()
    history        \* SpecGenerate: the calls that ended, with what they produced

vars == <<inSchema, inTypeName, inOperation, clientType, declType, interfaceText,
          queryType, document, pc, analysed, resourceGroups, verbIndex,
          groupIndex, directMethods, fallbackMethods, emitted, clientCode,
          call, returned, run, step, effects, files, outcome, now, history>>

schemaVars == <<inSchema, inTypeName, inOperation, clientType, declType,
                interfaceText, queryType>>

clientVars == <<document, pc, analysed, resourceGroups, verbIndex, groupIndex,
                directMethods, fallbackMethods, emitted, clientCode>>

callVars == <<call, returned>>

fileVars == <<run, step, effects, files, outcome, now, history>>

----------------------------------------------------------------------------
(* Bounds of the model *)

\* longest list of members under anyOf / oneOf / allOf
MaxMembers == 2

\* largest number of properties of an object schema
MaxProps == 2

\* largest number of pieces (words and separators) of an operationId
MaxPieces == 3

\* segments of a path template
MaxSegments == 3

\* calls of generateFromOpenAPI in one behaviour
MaxCalls == 3

----------------------------------------------------------------------------
(* String primitives of the JavaScript runtime *)

\* const x = v; F(x): v is evaluated once and F sees its value
Bind(v, F(_)) == CHOOSE r \in {F(x) : x \in {v}} : TRUE

Char(s, i) == SubSeq(s, i, i)

Matches(s, p, i) == SubSeq(s, i, i + Len(p) - 1) = p

Includes(s, p) == \E i \in 1..(Len(s) - Len(p) + 1) : Matches(s, p, i)

IndexOf(s, p) ==
    LET hits == {i \in 1..(Len(s) - Len(p) + 1) : Matches(s, p, i)}
    IN  IF hits = {} THEN 0 ELSE CHOOSE i \in hits : \A j \in hits : i <= j

StartsWith(s, p) == Len(s) >= Len(p) /\ SubSeq(s, 1, Len(p)) = p

EndsWith(s, p) == Len(s) >= Len(p) /\ SubSeq(s, Len(s) - Len(p) + 1, Len(s)) = p

\* String.prototype.replace with a string pattern: the first occurrence only
Replace(s, p, r) ==
    LET i == IndexOf(s, p)
    IN  IF i = 0 THEN s
        ELSE SubSeq(s, 1, i - 1) \o r \o SubSeq(s, i + Len(p), Len(s))

RECURSIVE ReplaceAll(_, _, _)
ReplaceAll(s, p, r) ==
    LET i == IndexOf(s, p)
    IN  IF i = 0 \/ p = "" THEN s
        ELSE SubSeq(s, 1, i - 1) \o r \o ReplaceAll(SubSeq(s, i + Len(p), Len(s)), p, r)

RECURSIVE Split(_, _)
Split(s, sep) ==
    LET i == IndexOf(s, sep)
    IN  IF i = 0 THEN <<s>>
        ELSE <<SubSeq(s, 1, i - 1)>> \o Split(SubSeq(s, i + Len(sep), Len(s)), sep)

RECURSIVE Join(_, _)
Join(parts, sep) ==
    IF Len(parts) = 0 THEN ""
    ELSE IF Len(parts) = 1 THEN parts[1]
    ELSE parts[1] \o sep \o Join(Tail(parts), sep)

\* the backtick character, taken from a two-character literal
Backtick == SubSeq("`'", 1, 1)

LowerChars == "abcdefghijklmnopqrstuvwxyz"
UpperChars == "ABCDEFGHIJKLMNOPQRSTUVWXYZ"
DigitChars == "0123456789"

IsLetter(c) == Includes(LowerChars, c) \/ Includes(UpperChars, c)
IsDigit(c) == Includes(DigitChars, c)

LowerChar(c) == IF Includes(UpperChars, c) THEN Char(LowerChars, IndexOf(UpperChars, c)) ELSE c
UpperChar(c) == IF Includes(LowerChars, c) THEN Char(UpperChars, IndexOf(LowerChars, c)) ELSE c

RECURSIVE ToLowerCase(_)
ToLowerCase(s) == IF s = "" THEN "" ELSE LowerChar(Char(s, 1)) \o ToLowerCase(Tail(s))

RECURSIVE ToUpperCase(_)
ToUpperCase(s) == IF s = "" THEN "" ELSE UpperChar(Char(s, 1)) \o ToUpperCase(Tail(s))

\* /^[a-zA-Z_$][a-zA-Z0-9_$]*$/.test(name)
IdentStart(c) == IsLetter(c) \/ c = "_" \/ c = "$"
IdentPart(c) == IdentStart(c) \/ IsDigit(c)
IsBareIdentifier(name) ==
    /\ Len(name) >= 1
    /\ IdentStart(Char(name, 1))
    /\ \A i \in 2..Len(name) : IdentPart(Char(name, i))

----------------------------------------------------------------------------
(* JavaScript values, as far as the generators probe them *)

Undefined == [k |-> "undefined"]
Null == [k |-> "null"]
Num(n) == [k |-> "number", n |-> n]
Str(s) == [k |-> "string", s |-> s]
Bool(b) == [k |-> "boolean", b |-> b]
Arr(a) == [k |-> "array", a |-> a]
\* an object is the list of its own entries <<key, value>> in Object.entries order
Obj(e) == [k |-> "object", e |-> e]

\* v[key]; the callers only read a property of a non-nullish value
Get(v, key) ==
    IF v.k = "object" /\ \E i \in 1..Len(v.e) : v.e[i][1] = key
    THEN v.e[CHOOSE i \in 1..Len(v.e) : v.e[i][1] = key][2]
    ELSE Undefined

Truthy(v) ==
    CASE v.k = "undefined" -> FALSE
      [] v.k = "null" -> FALSE
      [] v.k = "number" -> v.n # 0
      [] v.k = "string" -> v.s # ""
      [] v.k = "boolean" -> v.b
      [] OTHER -> TRUE

IsArray(v) == v.k = "array"

\* typeof v === "object"
TypeofObject(v) == v.k \in {"null", "array", "object"}

\* Object.entries(v) of a truthy value
RECURSIVE IndexEntries(_, _)
IndexEntries(vals, i) ==
    IF i > Len(vals) THEN <<>>
    ELSE <<<<ToString(i - 1), vals[i]>>>> \o IndexEntries(vals, i + 1)

Entries(v) ==
    CASE v.k = "object" -> v.e
      [] v.k = "array" -> IndexEntries(v.a, 1)
      [] v.k = "string" -> IndexEntries([i \in 1..Len(v.s) |-> Str(Char(v.s, i))], 1)
      [] OTHER -> <<>>

\* String(v)
RECURSIVE StringOf(_)
StringOf(v) ==
    CASE v.k = "undefined" -> "undefined"
      [] v.k = "null" -> "null"
      [] v.k = "number" -> ToString(v.n)
      [] v.k = "string" -> v.s
      [] v.k = "boolean" -> IF v.b THEN "true" ELSE "false"
      [] v.k = "array" ->
            Join([i \in 1..Len(v.a) |->
                    IF v.a[i].k \in {"undefined", "null"} THEN "" ELSE StringOf(v.a[i])], ",")
      [] OTHER -> "[object Object]"

\* The outcome of a call: the string it returns, or the TypeError it raises
Return(s) == [threw |-> FALSE, value |-> s]
Throw == [threw |-> TRUE, value |-> "TypeError"]

AnyThrew(results) == \E i \in 1..Len(results) : results[i].threw
Values(results) == [i \in 1..Len(results) |-> results[i].value]

----------------------------------------------------------------------------
(* Schema Resolver of the client generator: convertSchemaToType *)

\* schema.$ref.split("/").pop() || "unknown"
refName(ref) ==
    IF ref.k # "string" THEN Throw
    ELSE LET parts == Split(ref.s, "/")
             last == parts[Len(parts)]
         IN  Return(IF last = "" THEN "unknown" ELSE last)

joinTypes_reversed(results, sep) ==
    IF AnyThrew(results) THEN Throw
    ELSE Return(Join([i \in 1..Len(results) |-> results[Len(results) + 1 - i].value], sep))

\* types.join(sep) over the mapped members; a member that raises aborts the map
joinTypes(results, sep) ==
    IF AnyThrew(results) THEN Throw ELSE Return(Join(Values(results), sep))

unionSeparator == " | "
intersectionSeparator == " & "

\* schema.required?.includes(propName) ?? false
isRequired(required, propName) ==
    CASE required.k \in {"undefined", "null"} -> [threw |-> FALSE, value |-> FALSE]
      [] required.k = "array" ->
            [threw |-> FALSE, value |-> \E i \in 1..Len(required.a) : required.a[i] = Str(propName)]
      [] required.k = "string" -> [threw |-> FALSE, value |-> Includes(required.s, propName)]
      [] OTHER -> [threw |-> TRUE, value |-> FALSE]

optionalMarker_inverted(required) == IF required THEN "?" ELSE ""

optionalMarker(required) == IF required THEN "" ELSE "?"

escapedPropName(propName) ==
    IF IsBareIdentifier(propName) THEN propName ELSE "\"" \o propName \o "\""

\* typeof value === "string" ? "${value}" : String(value)
enumLiteral(value) ==
    IF value.k = "string" THEN "\"" \o value.s \o "\"" ELSE StringOf(value)

\* schema.enum.map(...).join(" | ")
enumValues(enum) ==
    IF ~IsArray(enum) THEN Throw
    ELSE Return(Join([i \in 1..Len(enum.a) |-> enumLiteral(enum.a[i])], " | "))

RECURSIVE convertSchemaToType(_)

\* one element of properties in the object branch
propertyField(s, entry) ==
    LET req == isRequired(Get(s, "required"), entry[1])
        propType == convertSchemaToType(entry[2])
    IN  IF req.threw \/ propType.threw THEN Throw
        ELSE Return(escapedPropName(entry[1]) \o optionalMarker(req.value)
                    \o ": " \o propType.value)

inlineRecord(s) ==
    LET entries == Entries(Get(s, "properties"))
        fields == [i \in 1..Len(entries) |-> propertyField(s, entries[i])]
    IN  IF AnyThrew(fields) THEN Throw
        ELSE Return("{ " \o Join(Values(fields), "; ") \o " }")

arrayType(s) ==
    IF Truthy(Get(s, "items"))
    THEN LET itemType == convertSchemaToType(Get(s, "items"))
         IN  IF itemType.threw THEN Throw ELSE Return(itemType.value \o "[]")
    ELSE Return("any[]")

membersOf(list) == [i \in 1..Len(list.a) |-> convertSchemaToType(list.a[i])]

resolveByType_enumFirst(s) ==
    IF Truthy(Get(s, "enum")) THEN enumValues(Get(s, "enum"))
    ELSE IF Get(s, "type") = Str("string") THEN Return("string")
    ELSE IF Get(s, "type") = Str("number") \/ Get(s, "type") = Str("integer")
         THEN Return("number")
    ELSE IF Get(s, "type") = Str("boolean") THEN Return("boolean")
    ELSE IF Get(s, "type") = Str("array") THEN arrayType(s)
    ELSE IF Get(s, "type") = Str("object")
         THEN IF Truthy(Get(s, "properties")) THEN inlineRecord(s)
              ELSE Return("Record<string, any>")
    ELSE Return("any")

\* the rules keyed on type, then enum, then the fallback
resolveByType(s) ==
    IF Get(s, "type") = Str("string") THEN Return("string")
    ELSE IF Get(s, "type") = Str("number") \/ Get(s, "type") = Str("integer")
         THEN Return("number")
    ELSE IF Get(s, "type") = Str("boolean") THEN Return("boolean")
    ELSE IF Get(s, "type") = Str("array") THEN arrayType(s)
    ELSE IF Get(s, "type") = Str("object")
         THEN IF Truthy(Get(s, "properties")) THEN inlineRecord(s)
              ELSE Return("Record<string, any>")
    ELSE IF Truthy(Get(s, "enum")) THEN enumValues(Get(s, "enum"))
    ELSE Return("any")

convertSchemaToType(s) ==
    IF ~Truthy(s) \/ ~TypeofObject(s) THEN Return("any")
    ELSE IF Truthy(Get(s, "$ref")) THEN refName(Get(s, "$ref"))
    ELSE IF Truthy(Get(s, "anyOf")) /\ IsArray(Get(s, "anyOf"))
         THEN joinTypes(membersOf(Get(s, "anyOf")), unionSeparator)
    ELSE IF Truthy(Get(s, "oneOf")) /\ IsArray(Get(s, "oneOf"))
         THEN joinTypes(membersOf(Get(s, "oneOf")), unionSeparator)
    ELSE IF Truthy(Get(s, "allOf")) /\ IsArray(Get(s, "allOf"))
         THEN joinTypes(membersOf(Get(s, "allOf")), intersectionSeparator)
    ELSE resolveByType(s)

----------------------------------------------------------------------------
(* Type-declaration module (type-generators) *)

RECURSIVE typeGenerators_convertSchemaToType(_)
typeGenerators_convertSchemaToType(s) ==
    IF s.k \in {"undefined", "null"} THEN Throw   \* schema.$ref of a nullish value
    ELSE IF Truthy(Get(s, "$ref")) THEN refName(Get(s, "$ref"))
    ELSE IF Get(s, "type") = Str("string") THEN Return("string")
    ELSE IF Get(s, "type") = Str("number") \/ Get(s, "type") = Str("integer")
         THEN Return("number")
    ELSE IF Get(s, "type") = Str("boolean") THEN Return("boolean")
    ELSE IF Get(s, "type") = Str("array")
         THEN IF Truthy(Get(s, "items"))
              THEN LET itemType == typeGenerators_convertSchemaToType(Get(s, "items"))
                   IN  IF itemType.threw THEN Throw ELSE Return(itemType.value \o "[]")
              ELSE Return("any[]")
    ELSE IF Get(s, "type") = Str("object") THEN Return("Record<string, any>")
    ELSE IF Truthy(Get(s, "enum")) THEN enumValues(Get(s, "enum"))
    ELSE Return("any")

\* one line of the interface body
interfaceField(s, entry) ==
    LET req == isRequired(Get(s, "required"), entry[1])
        propType == typeGenerators_convertSchemaToType(entry[2])
    IN  IF req.threw \/ propType.threw THEN Throw
        ELSE Return("  " \o entry[1] \o optionalMarker(req.value)
                    \o ": " \o propType.value \o ";\n")

generateInterface(name, s) ==
    IF s.k \in {"undefined", "null"} THEN Throw
    ELSE LET entries == IF Truthy(Get(s, "properties"))
                        THEN Entries(Get(s, "properties")) ELSE <<>>
             fields == [i \in 1..Len(entries) |-> interfaceField(s, entries[i])]
         IN  IF AnyThrew(fields) THEN Throw
             ELSE Return("export interface " \o name \o " {\n"
                         \o Join(Values(fields), "") \o "}")

----------------------------------------------------------------------------
(* Operations.  An operation is a record whose optional fields are present *)
(* or absent: operationId, summary, description, parameters, requestBody,  *)
(* responses, security.                                                    *)

Has(r, f) == f \in DOMAIN r

\* one properties.push of getQueryParamsType
queryParamField(param) ==
    LET required == Has(param, "required") /\ param.required = TRUE
        paramType == convertSchemaToType(
                        IF Has(param, "schema") /\ Truthy(param.schema)
                        THEN param.schema
                        ELSE Obj(<<<<"type", Str("string")>>>>))
    IN  IF paramType.threw THEN Throw
        ELSE Return(escapedPropName(param.name) \o optionalMarker(required)
                    \o ": " \o paramType.value)

getQueryParamsType_neverRequired(operation) ==
    [threw |-> FALSE, type |-> "QueryParams", hasRequired |-> FALSE]

getQueryParamsType(operation) ==
    IF ~Has(operation, "parameters")
    THEN [threw |-> FALSE, type |-> "QueryParams", hasRequired |-> FALSE]
    ELSE LET queryParams == SelectSeq(operation.parameters, LAMBDA p : p.in = "query")
             properties == [i \in 1..Len(queryParams) |-> queryParamField(queryParams[i])]
         IN  IF Len(queryParams) = 0
             THEN [threw |-> FALSE, type |-> "QueryParams", hasRequired |-> FALSE]
             ELSE IF AnyThrew(properties)
             THEN [threw |-> TRUE, type |-> "TypeError", hasRequired |-> FALSE]
             ELSE [threw |-> FALSE,
                   type |-> "{ " \o Join(Values(properties), "; ") \o " }",
                   hasRequired |-> \E i \in 1..Len(queryParams) :
                                      Has(queryParams[i], "required")
                                      /\ queryParams[i].required = TRUE]

----------------------------------------------------------------------------
(* Client generator: types, names and security of an operation *)

SuccessCodes == <<"200", "201", "204">>

\* content?.[mediaType]?.schema, Undefined if any link is missing
ContentSchema(holder, mediaType) ==
    IF Has(holder, "content") /\ mediaType \in DOMAIN holder.content
       /\ Has(holder.content[mediaType], "schema")
    THEN holder.content[mediaType].schema
    ELSE Undefined

\* Operations carry schemas on which convertSchemaToType returns; the
\* generators below use the returned string.
getResponseType(operation) ==
    LET declared == IF Has(operation, "responses")
                    THEN SelectSeq(SuccessCodes, LAMBDA c : c \in DOMAIN operation.responses)
                    ELSE <<>>
    IN  IF Len(declared) = 0 THEN "any"
        ELSE LET s == ContentSchema(operation.responses[declared[1]], "application/json")
             IN  IF ~Truthy(s) THEN "any" ELSE convertSchemaToType(s).value

getRequestType(operation) ==
    LET body == IF Has(operation, "requestBody") THEN operation.requestBody ELSE <<>>
        json == ContentSchema(body, "application/json")
        form == ContentSchema(body, "application/x-www-form-urlencoded")
        s == IF Truthy(json) THEN json ELSE form
    IN  IF ~Truthy(s) THEN "any" ELSE convertSchemaToType(s).value

\* .replace(/[^a-zA-Z0-9]/g, ' ')
RECURSIVE BlankSpecials(_)
BlankSpecials(s) ==
    IF s = "" THEN ""
    ELSE (IF IsLetter(Char(s, 1)) \/ IsDigit(Char(s, 1)) THEN Char(s, 1) ELSE " ")
         \o BlankSpecials(Tail(s))

Capitalize(word) ==
    IF word = "" THEN "" ELSE UpperChar(Char(word, 1)) \o ToLowerCase(Tail(word))

getMethodName_fallbackFirst(operation, fallback) ==
    IF fallback # "" THEN fallback
    ELSE IF Has(operation, "operationId") /\ operation.operationId # ""
    THEN LET words == Split(BlankSpecials(operation.operationId), " ")
         IN  Join([i \in 1..Len(words) |->
                     IF i = 1 THEN ToLowerCase(words[i]) ELSE Capitalize(words[i])], "")
    ELSE fallback

getMethodName(operation, fallback) ==
    IF Has(operation, "operationId") /\ operation.operationId # ""
    THEN LET words == Split(BlankSpecials(operation.operationId), " ")
         IN  Join([i \in 1..Len(words) |->
                     IF i = 1 THEN ToLowerCase(words[i]) ELSE Capitalize(words[i])], "")
    ELSE fallback

\* the label pushed for one scheme of the registry
\* the properties every plain object inherits from Object.prototype: a
\* lookup of one of these names on a registry that does not declare it
\* yields the inherited value, which is truthy and has no type
ObjectPrototypeKeys ==
    {"constructor", "toString", "toLocaleString", "valueOf", "hasOwnProperty",
     "isPrototypeOf", "propertyIsEnumerable", "__proto__"}

securityLabel(schemeName, scopes, scheme) ==
    CASE ~Has(scheme, "type") -> schemeName
      [] scheme.type = "http" ->
            IF Has(scheme, "scheme") /\ scheme.scheme = "basic" THEN "Basic Authentication"
            ELSE IF Has(scheme, "scheme") /\ scheme.scheme = "bearer" THEN "Bearer Token"
            ELSE "HTTP " \o (IF Has(scheme, "scheme") THEN ToUpperCase(scheme.scheme)
                             ELSE "undefined")
      [] scheme.type = "apiKey" ->
            "API Key (" \o (IF Has(scheme, "in") THEN scheme.in ELSE "undefined") \o ": "
            \o (IF Has(scheme, "name") THEN scheme.name ELSE "undefined") \o ")"
      [] scheme.type = "oauth2" ->
            "OAuth2" \o (IF Len(scopes) > 0 THEN " (" \o Join(scopes, ", ") \o ")" ELSE "")
      [] scheme.type = "openIdConnect" -> "OpenID Connect"
      [] OTHER -> schemeName

\* a requirement is the list of its entries <<schemeName, scopes>>
RECURSIVE Flatten(_)
Flatten(lists) == IF Len(lists) = 0 THEN <<>> ELSE lists[1] \o Flatten(Tail(lists))

securityToCheck_globalFirst(operation, api) ==
    IF Has(api, "security") THEN api.security
    ELSE IF Has(operation, "security") THEN operation.security
    ELSE <<>>

\* operation.security || apiData.security || []; a list, even empty, is truthy
securityToCheck(operation, api) ==
    IF Has(operation, "security") THEN operation.security
    ELSE IF Has(api, "security") THEN api.security
    ELSE <<>>

getSecurityRequirements(operation, api) ==
    LET hasRegistry == Has(api, "components") /\ Has(api.components, "securitySchemes")
        registry == IF hasRegistry THEN api.components.securitySchemes ELSE <<>>
        inherited(schemeName) == hasRegistry /\ schemeName \in ObjectPrototypeKeys
        scheme(schemeName) ==
            IF schemeName \in DOMAIN registry THEN registry[schemeName] ELSE <<>>
        labels(requirement) ==
            LET found == SelectSeq(requirement,
                                   LAMBDA entry : entry[1] \in DOMAIN registry
                                                  \/ inherited(entry[1]))
            IN  [i \in 1..Len(found) |->
                    securityLabel(found[i][1], found[i][2], scheme(found[i][1]))]
    IN  Bind(securityToCheck(operation, api), LAMBDA requirements :
            Flatten([i \in 1..Len(requirements) |-> labels(requirements[i])]))

\* the JSDoc block that precedes every emitted method
docComment(indent, title, operation, api) ==
    LET securityRequirements == getSecurityRequirements(operation, api)
    IN  indent \o "/**\n"
        \o indent \o " * "
        \o (IF Has(operation, "summary") /\ operation.summary # ""
            THEN operation.summary ELSE title) \o "\n"
        \o (IF Has(operation, "description") /\ operation.description # ""
            THEN indent \o " * " \o operation.description \o "\n" ELSE "")
        \o (IF Len(securityRequirements) > 0
            THEN indent \o " * @requires " \o Join(securityRequirements, ", ") \o "\n"
            ELSE "")
        \o indent \o " */\n"

----------------------------------------------------------------------------
(* Path Analyzer *)

\* path.match(/\{([^}]+)\}/g)?.map((param) => param.slice(1, -1)) || []
matchPathParams_first(path) ==
    LET open == IndexOf(path, "{")
        rest == SubSeq(path, open + 1, Len(path))
        close == IndexOf(rest, "}")
    IN  IF open = 0 \/ close <= 1 THEN <<>> ELSE <<SubSeq(rest, 1, close - 1)>>

RECURSIVE matchPathParams(_)
matchPathParams(path) ==
    LET open == IndexOf(path, "{")
        rest == SubSeq(path, open + 1, Len(path))
        close == IndexOf(rest, "}")
    IN  IF open = 0 \/ close = 0 THEN <<>>
        ELSE IF close = 1 THEN matchPathParams(rest)
        ELSE <<SubSeq(rest, 1, close - 1)>>
             \o matchPathParams(SubSeq(rest, close + 1, Len(rest)))

analyzePath_collectionOnly(path, method, operation) ==
    [path |-> path, method |-> method, operation |-> operation,
     resourceName |-> "root", isCollection |-> TRUE, isResource |-> Includes(path, "{"),
     pathParams |-> matchPathParams(path)]

analyzePath(path, method, operation) ==
    LET pathSegments == SelectSeq(Split(path, "/"),
                                  LAMBDA segment : segment # "" /\ ~StartsWith(segment, "{"))
    IN  [path |-> path,
         method |-> method,
         operation |-> operation,
         resourceName |-> IF Len(pathSegments) = 0 THEN "root"
                          ELSE pathSegments[Len(pathSegments)],
         isCollection |-> ~Includes(path, "{"),
         isResource |-> Includes(path, "{"),
         pathParams |-> matchPathParams(path)]

\* groups in order of first appearance; a group is [method, resourceName, paths]
RECURSIVE groupPathsByResource(_)
groupPathsByResource(infos) ==
    IF Len(infos) = 0 THEN <<>>
    ELSE LET before == groupPathsByResource(SubSeq(infos, 1, Len(infos) - 1))
             info == infos[Len(infos)]
             same(g) == g.method = info.method /\ g.resourceName = info.resourceName
         IN  IF \E i \in 1..Len(before) : same(before[i])
             THEN [i \in 1..Len(before) |->
                     IF same(before[i])
                     THEN [before[i] EXCEPT !.paths = Append(@, info)]
                     ELSE before[i]]
             ELSE Append(before, [method |-> info.method,
                                  resourceName |-> info.resourceName,
                                  paths |-> <<info>>])

----------------------------------------------------------------------------
(* Client Emitter *)

hasQueryParams(operation) ==
    Has(operation, "parameters")
    /\ \E i \in 1..Len(operation.parameters) : operation.parameters[i].in = "query"

useNestedStructure_withBody(operation) ==
    hasQueryParams(operation) \/ Has(operation, "requestBody")

useNestedStructure_never(operation) == FALSE

useNestedStructure(operation) == hasQueryParams(operation)

\* const data = await response.json(); return {...}; at the given indentation
jsonResult(pad) ==
    pad \o "const data = await response.json();\n"
    \o pad \o "return {\n"
    \o pad \o "  data,\n"
    \o pad \o "  status: response.status,\n"
    \o pad \o "  statusText: response.statusText,\n"
    \o pad \o "};\n"

voidResult(pad) ==
    pad \o "return {\n"
    \o pad \o "  data: undefined,\n"
    \o pad \o "  status: response.status,\n"
    \o pad \o "  statusText: response.statusText,\n"
    \o pad \o "};\n"

jsonHeaders(pad) ==
    pad \o "headers: {\n"
    \o pad \o "  'Content-Type': 'application/json',\n"
    \o pad \o "  ...this.config.headers,\n"
    \o pad \o "},\n"
    \o pad \o "body: JSON.stringify(body),\n"

generateCollectionMethods(resourceName, pathInfo, api) ==
    LET operation == pathInfo.operation
        nested == useNestedStructure(operation)
        pad == IF nested THEN "" ELSE "      "
        responseType == getResponseType(operation)
        query == getQueryParamsType(operation)
        defaultValue == IF query.hasRequired THEN "" ELSE " = {}"
        getPart ==
            (IF nested
             THEN docComment("      ", getMethodName(operation, "queryParams"), operation, api)
                  \o "      " \o getMethodName(operation, "queryParams")
                  \o ": async (params: " \o query.type \o defaultValue
                  \o "): Promise<ApiResponse<" \o responseType \o ">> => {\n"
             ELSE docComment("", resourceName, operation, api)
                  \o "async (params: " \o query.type \o defaultValue
                  \o "): Promise<ApiResponse<" \o responseType \o ">> => {\n"
                  \o "      ")
            \o "const url = new URL(" \o Backtick \o "${this.config.baseUrl}" \o pathInfo.path \o Backtick \o ");\n"
            \o pad \o "Object.entries(params).forEach(([key, value]) => {\n"
            \o pad \o "  if (value !== undefined) {\n"
            \o pad \o "    url.searchParams.append(key, String(value));\n"
            \o pad \o "  }\n"
            \o pad \o "});\n"
            \o "        \n"
            \o pad \o "const response = await fetch(url.toString(), {\n"
            \o pad \o "  method: '" \o ToUpperCase(pathInfo.method) \o "',\n"
            \o pad \o "  headers: this.config.headers,\n"
            \o pad \o "});\n"
            \o "        \n"
            \o jsonResult(pad)
            \o (IF nested THEN "      },\n" ELSE "    },\n")
        dataPart ==
            (IF nested
             THEN docComment("      ", getMethodName(operation, "data"), operation, api)
                  \o "      " \o getMethodName(operation, "data")
                  \o ": async (body: " \o getRequestType(operation)
                  \o "): Promise<ApiResponse<" \o responseType \o ">> => {\n"
             ELSE docComment("", resourceName, operation, api)
                  \o "async (body: " \o getRequestType(operation)
                  \o "): Promise<ApiResponse<" \o responseType \o ">> => {\n"
                  \o "      ")
            \o "const response = await fetch(" \o Backtick \o "${this.config.baseUrl}" \o pathInfo.path \o Backtick \o ", {\n"
            \o pad \o "  method: '" \o ToUpperCase(pathInfo.method) \o "',\n"
            \o jsonHeaders(pad \o "  ")
            \o pad \o "});\n"
            \o "        \n"
            \o jsonResult(pad)
            \o (IF nested THEN "      },\n" ELSE "    },\n")
    IN  (IF nested THEN "    " \o resourceName \o ": {\n" ELSE "    " \o resourceName \o ": ")
        \o (IF pathInfo.method = "get" THEN getPart ELSE "")
        \o (IF Has(operation, "requestBody") THEN dataPart ELSE "")
        \o (IF nested THEN "    },\n" ELSE "")

singularName_keep(resourceName) == resourceName

singularName(resourceName) ==
    IF EndsWith(resourceName, "s") THEN SubSeq(resourceName, 1, Len(resourceName) - 1)
    ELSE resourceName

firstParam(pathInfo) ==
    IF Len(pathInfo.pathParams) > 0 /\ pathInfo.pathParams[1] # ""
    THEN pathInfo.pathParams[1] ELSE "id"

generateResourceMethods(resourceName, pathInfo, api) ==
    LET operation == pathInfo.operation
        paramName == firstParam(pathInfo)
        responseType == getResponseType(operation)
        url == Replace(pathInfo.path, "{" \o paramName \o "}", "${" \o paramName \o "}")
        head == "    " \o singularName(resourceName) \o ": (" \o paramName \o ": string) => "
    IN  IF pathInfo.method = "get"
        THEN head \o "({\n"
             \o docComment("      ", getMethodName(operation, "get"), operation, api)
             \o "      " \o getMethodName(operation, "get")
             \o ": async (): Promise<ApiResponse<" \o responseType \o ">> => {\n"
             \o "        const response = await fetch(" \o Backtick \o "${this.config.baseUrl}" \o url \o Backtick \o ", {\n"
             \o "          method: '" \o ToUpperCase(pathInfo.method) \o "',\n"
             \o "          headers: this.config.headers,\n"
             \o "        });\n"
             \o "        \n"
             \o jsonResult("        ")
             \o "      },\n"
             \o "    }),\n"
        ELSE IF Has(operation, "requestBody")
        THEN head
             \o docComment("", resourceName, operation, api)
             \o "async (body: " \o getRequestType(operation)
             \o "): Promise<ApiResponse<" \o responseType \o ">> => {\n"
             \o "      const response = await fetch(" \o Backtick \o "${this.config.baseUrl}" \o url \o Backtick \o ", {\n"
             \o "        method: '" \o ToUpperCase(pathInfo.method) \o "',\n"
             \o jsonHeaders("        ")
             \o "      });\n"
             \o "      \n"
             \o jsonResult("      ")
             \o "    },\n"
        ELSE IF pathInfo.method = "delete"
        THEN head
             \o docComment("", resourceName, operation, api)
             \o "async (): Promise<ApiResponse<void>> => {\n"
             \o "      const response = await fetch(" \o Backtick \o "${this.config.baseUrl}" \o url \o Backtick \o ", {\n"
             \o "        method: '" \o ToUpperCase(pathInfo.method) \o "',\n"
             \o "        headers: this.config.headers,\n"
             \o "      });\n"
             \o "      \n"
             \o voidResult("      ")
             \o "    },\n"
        ELSE "    " \o singularName(resourceName) \o ": () => {},\n"

\* pathParams.forEach(param => urlTemplate = urlTemplate.replace({${param}}, \${${param}}))
RECURSIVE substituteParams(_, _)
substituteParams(urlTemplate, params) ==
    IF Len(params) = 0 THEN urlTemplate
    ELSE substituteParams(
            Replace(urlTemplate, "{" \o params[1] \o "}", "${" \o params[1] \o "}"),
            Tail(params))

isCurried_noPatch(pathInfo) ==
    Len(pathInfo.pathParams) > 0 /\ pathInfo.method \in {"post", "put", "delete"}

\* resource endpoints with POST/PUT/DELETE/PATCH use the curried function
isCurried(pathInfo) ==
    Len(pathInfo.pathParams) > 0 /\ pathInfo.method \in {"post", "put", "delete", "patch"}

directParams_bodyFirst(pathInfo) ==
    LET operation == pathInfo.operation
        query == getQueryParamsType(operation)
    IN  [i \in 1..Len(pathInfo.pathParams) |-> pathInfo.pathParams[i] \o ": string"]
        \o (IF Has(operation, "requestBody")
            THEN <<"body: " \o getRequestType(operation)>> ELSE <<>>)
        \o (IF pathInfo.method = "get"
            THEN <<"params: " \o query.type \o (IF query.hasRequired THEN "" ELSE " = {}")>>
            ELSE <<>>)

\* the parameter list of the non-curried direct method
directParams(pathInfo) ==
    LET operation == pathInfo.operation
        query == getQueryParamsType(operation)
    IN  [i \in 1..Len(pathInfo.pathParams) |-> pathInfo.pathParams[i] \o ": string"]
        \o (IF pathInfo.method = "get"
            THEN <<"params: " \o query.type \o (IF query.hasRequired THEN "" ELSE " = {}")>>
            ELSE <<>>)
        \o (IF Has(operation, "requestBody")
            THEN <<"body: " \o getRequestType(operation)>> ELSE <<>>)

generateDirectMethod(pathInfo, api) ==
    LET operation == pathInfo.operation
        methodName == getMethodName(operation, "")
        responseType == getResponseType(operation)
        hasRequestBody == Has(operation, "requestBody")
        returnsVoid == pathInfo.method = "delete" /\ Includes(responseType, "void")
        head == docComment("    ", methodName, operation, api) \o "    " \o methodName \o ": "
    IN  IF isCurried(pathInfo)
        THEN head
             \o "(" \o pathInfo.pathParams[1] \o ": string) => "
             \o (IF hasRequestBody
                 THEN "async (body: " \o getRequestType(operation)
                      \o "): Promise<ApiResponse<" \o responseType \o ">> => {\n"
                 ELSE "async (): Promise<ApiResponse<" \o responseType \o ">> => {\n")
             \o "      const response = await fetch(" \o Backtick \o "${this.config.baseUrl}"
             \o substituteParams(pathInfo.path, pathInfo.pathParams) \o Backtick \o ", {\n"
             \o "        method: '" \o ToUpperCase(pathInfo.method) \o "',\n"
             \o (IF hasRequestBody THEN jsonHeaders("        ")
                 ELSE "        headers: this.config.headers,\n")
             \o "      });\n"
             \o "      \n"
             \o (IF returnsVoid THEN voidResult("      ") ELSE jsonResult("      "))
             \o "    },\n"
        ELSE head
             \o "async (" \o Join(directParams(pathInfo), ", ")
             \o "): Promise<ApiResponse<" \o responseType \o ">> => {\n"
             \o "      const url = new URL("
             \o substituteParams(Backtick \o "${this.config.baseUrl}" \o pathInfo.path \o Backtick,
                                 pathInfo.pathParams)
             \o ");\n"
             \o (IF pathInfo.method = "get"
                 THEN "      Object.entries(params).forEach(([key, value]) => {\n"
                      \o "        if (value !== undefined) {\n"
                      \o "          url.searchParams.append(key, String(value));\n"
                      \o "        }\n"
                      \o "      });\n"
                 ELSE "")
             \o "      \n"
             \o "      const response = await fetch(url.toString(), {\n"
             \o "        method: '" \o ToUpperCase(pathInfo.method) \o "'"
             \o (IF hasRequestBody
                 THEN ",\n      headers: {\n        'Content-Type': 'application/json',\n"
                      \o "        ...this.config.headers,\n      }"
                      \o ",\n      body: JSON.stringify(body)"
                 ELSE ",\n      headers: this.config.headers")
             \o "\n"
             \o "      });\n"
             \o "      \n"
             \o (IF returnsVoid THEN voidResult("      ") ELSE jsonResult("      "))
             \o "    },\n"

----------------------------------------------------------------------------
(* Inputs of the schema pipeline *)

Opt(key, v) == IF v = Undefined THEN <<>> ELSE <<<<key, v>>>>

StringSchema == Obj(<<<<"type", Str("string")>>>>)
NumberSchema == Obj(<<<<"type", Str("number")>>>>)
BooleanSchema == Obj(<<<<"type", Str("boolean")>>>>)
RefSchema == Obj(<<<<"$ref", Str("#/components/schemas/Todo")>>>>)
IdRecordSchema ==
    Obj(<<<<"type", Str("object")>>, <<"properties", Obj(<<<<"id", StringSchema>>>>)>>>>)

\* members of anyOf / oneOf / allOf lists, items and properties
MemberSchemas ==
    {StringSchema, NumberSchema, RefSchema, IdRecordSchema,
     Obj(<<<<"type", Str("array")>>, <<"items", StringSchema>>>>),
     Obj(<<>>), Null, Str("x")}

TypeMarkers == {"string", "number", "integer", "boolean", "array", "object", "file"}

\* schemas that populate several of the fields the resolver probes
OrderingSchemas ==
    {Obj(Opt("$ref", r) \o Opt("anyOf", a) \o Opt("oneOf", o) \o Opt("allOf", l)
         \o Opt("type", t) \o Opt("items", it) \o Opt("properties", p)
         \o Opt("enum", e)) :
        r \in {Undefined, Str("#/components/schemas/Todo")},
        a \in {Undefined, Arr(<<StringSchema, NumberSchema>>)},
        o \in {Undefined, Arr(<<BooleanSchema>>)},
        l \in {Undefined, Arr(<<RefSchema, IdRecordSchema>>)},
        t \in {Undefined} \cup {Str(m) : m \in TypeMarkers},
        it \in {Undefined, StringSchema},
        p \in {Undefined, Obj(<<<<"id", StringSchema>>>>)},
        e \in {Undefined, Arr(<<Str("red"), Num(1), Bool(TRUE)>>)}}

PropNames == {"id", "taxonomy/id", "9lives", "", "_x$1"}

RequiredLists ==
    {Undefined, Arr(<<>>), Arr(<<Str("id")>>), Arr(<<Str("taxonomy/id"), Str("")>>),
     Arr(<<Str("_x$1"), Str("9lives"), Str("id")>>)}

IsInjective(f) == \A i, j \in DOMAIN f : f[i] = f[j] => i = j

\* object schemas with up to MaxProps properties
RecordSchemas ==
    UNION {
        {Obj(<<<<"type", Str("object")>>,
               <<"properties", Obj([i \in 1..n |-> <<names[i], types[i]>>])>>>>
             \o Opt("required", req)) :
            names \in {f \in [1..n -> PropNames] : IsInjective(f)},
            types \in [1..n -> {StringSchema, RefSchema}],
            req \in RequiredLists} :
        n \in 0..MaxProps}

CompositeKeys == {"anyOf", "oneOf", "allOf"}

\* one-field schemas {anyOf: L}, {oneOf: L}, {allOf: L} with up to MaxMembers members
CompositeSchemas ==
    UNION {
        {Obj(<<<<key, Arr(members)>>>>) :
            key \in CompositeKeys, members \in [1..n -> MemberSchemas]} :
        n \in 0..MaxMembers}

\* null, non-objects, and objects whose fields have unexpected shapes
MalformedSchemas ==
    {Undefined, Null, Num(0), Num(5), Str(""), Str("abc"), Bool(TRUE), Arr(<<>>),
     Arr(<<StringSchema>>), Obj(<<>>),
     Obj(<<<<"$ref", Num(5)>>>>),
     Obj(<<<<"$ref", Str("")>>, <<"type", Str("string")>>>>),
     Obj(<<<<"$ref", Str("#/components/schemas/")>>>>),
     Obj(<<<<"$ref", Str("Todo")>>>>),
     Obj(<<<<"enum", Str("ab")>>>>),
     Obj(<<<<"enum", Num(5)>>>>),
     Obj(<<<<"enum", Arr(<<>>)>>>>),
     Obj(<<<<"enum", Arr(<<Null, Arr(<<Num(1), Null>>), Obj(<<>>)>>)>>>>),
     Obj(<<<<"anyOf", Str("x")>>, <<"type", Str("boolean")>>>>),
     Obj(<<<<"anyOf", Arr(<<Null, Num(5)>>)>>, <<"enum", Arr(<<Num(1)>>)>>>>),
     Obj(<<<<"type", Str("array")>>, <<"items", Num(5)>>>>),
     Obj(<<<<"type", Str("array")>>, <<"items", Obj(<<<<"enum", Bool(TRUE)>>>>)>>>>),
     Obj(<<<<"type", Str("object")>>, <<"properties", Null>>>>),
     Obj(<<<<"type", Str("object")>>, <<"properties", Str("ab")>>>>),
     Obj(<<<<"type", Str("object")>>, <<"properties", Arr(<<StringSchema>>)>>>>),
     Obj(<<<<"type", Str("object")>>, <<"properties", Num(5)>>>>),
     Obj(<<<<"type", Str("object")>>, <<"properties", Obj(<<<<"a", Null>>>>)>>>>),
     Obj(<<<<"type", Str("object")>>, <<"properties", Obj(<<<<"a", StringSchema>>>>)>>,
           <<"required", Num(5)>>>>),
     Obj(<<<<"type", Str("object")>>, <<"properties", Obj(<<<<"a", StringSchema>>>>)>>,
           <<"required", Str("ab")>>>>),
     Obj(<<<<"type", Str("object")>>, <<"properties", Obj(<<>>)>>,
           <<"required", Bool(TRUE)>>>>),
     Obj(<<<<"type", Num(5)>>>>)}

SchemaInputs == OrderingSchemas \cup RecordSchemas \cup CompositeSchemas \cup MalformedSchemas

\* operations whose parameter lists exercise getQueryParamsType
QueryOperations ==
    {[responses |-> <<>>],
     [parameters |-> <<[name |-> "q", in |-> "query", required |-> TRUE,
                        schema |-> StringSchema],
                       [name |-> "limit", in |-> "query", required |-> FALSE,
                        schema |-> NumberSchema]>>],
     [parameters |-> <<[name |-> "id", in |-> "path", required |-> TRUE],
                       [name |-> "taxonomy/id", in |-> "query"],
                       [name |-> "$top", in |-> "query", schema |-> RefSchema]>>],
     [parameters |-> <<[name |-> "9lives", in |-> "query", schema |-> StringSchema],
                       [name |-> "", in |-> "header"],
                       [name |-> "", in |-> "query", required |-> FALSE]>>],
     [parameters |-> <<[name |-> "id", in |-> "path", required |-> TRUE]>>]}

Pending == [pending |-> TRUE]

InitCallIdle ==
    /\ call = [fn |-> "none"]
    /\ returned = <<>>

InitFileIdle ==
    /\ run = <<>>
    /\ step = "idle"
    /\ effects = <<>>
    /\ files = <<>>
    /\ outcome = <<>>
    /\ now = 0
    /\ history = <<>>

----------------------------------------------------------------------------
(* The schema pipeline: the resolvers are called one after the other, each *)
(* once, on the chosen input                                             *)

InitClientIdle ==
    /\ document = <<>>
    /\ pc = "idle"
    /\ analysed = <<>>
    /\ resourceGroups = <<>>
    /\ verbIndex = 0
    /\ groupIndex = 0
    /\ directMethods = <<>>
    /\ fallbackMethods = <<>>
    /\ emitted = <<>>
    /\ clientCode = ""

InitSchema ==
    /\ inSchema \in SchemaInputs
    /\ inTypeName = "Todo"
    /\ inOperation \in QueryOperations
    /\ clientType = Pending
    /\ declType = Pending
    /\ interfaceText = Pending
    /\ queryType = Pending
    /\ InitClientIdle
    /\ InitCallIdle
    /\ InitFileIdle

ResolveClient ==
    /\ clientType = Pending
    /\ clientType' = convertSchemaToType(inSchema)
    /\ UNCHANGED <<inSchema, inTypeName, inOperation, declType, interfaceText, queryType>>
    /\ UNCHANGED <<clientVars, callVars, fileVars>>

ResolveDecl ==
    /\ clientType # Pending
    /\ declType = Pending
    /\ declType' = typeGenerators_convertSchemaToType(inSchema)
    /\ UNCHANGED <<inSchema, inTypeName, inOperation, clientType, interfaceText, queryType>>
    /\ UNCHANGED <<clientVars, callVars, fileVars>>

GenerateInterface ==
    /\ declType # Pending
    /\ interfaceText = Pending
    /\ interfaceText' = generateInterface(inTypeName, inSchema)
    /\ UNCHANGED <<inSchema, inTypeName, inOperation, clientType, declType, queryType>>
    /\ UNCHANGED <<clientVars, callVars, fileVars>>

QueryParamsType ==
    /\ interfaceText # Pending
    /\ queryType = Pending
    /\ queryType' = getQueryParamsType(inOperation)
    /\ UNCHANGED <<inSchema, inTypeName, inOperation, clientType, declType, interfaceText>>
    /\ UNCHANGED <<clientVars, callVars, fileVars>>

NextSchema == ResolveClient \/ ResolveDecl \/ GenerateInterface \/ QueryParamsType

SpecSchema == InitSchema /\ [][NextSchema]_vars

----------------------------------------------------------------------------
(* Inputs of the client generator *)

JsonContent(s) == [content |-> ("application/json" :> [schema |-> s])]

TodoRef == RefSchema
TodoInputRef == Obj(<<<<"$ref", Str("#/components/schemas/TodoInput")>>>>)
TodoList == Obj(<<<<"type", Str("array")>>, <<"items", TodoRef>>>>)

OperationIdOptions ==
    {<<>>, ("operationId" :> "updateTodo"), ("operationId" :> "get-todo_by.id")}

RequestBodyOptions ==
    {<<>>,
     ("requestBody" :> JsonContent(TodoInputRef)),
     ("requestBody" :>
        [content |-> ("application/x-www-form-urlencoded" :> [schema |-> StringSchema])])}

ParameterOptions ==
    {<<>>,
     ("parameters" :> <<[name |-> "id", in |-> "path", required |-> TRUE,
                         schema |-> StringSchema]>>),
     ("parameters" :> <<[name |-> "X-Trace", in |-> "header", required |-> TRUE],
                        [name |-> "limit", in |-> "query", schema |-> NumberSchema]>>),
     ("parameters" :> <<[name |-> "q", in |-> "query", required |-> TRUE,
                         schema |-> StringSchema],
                        [name |-> "limit", in |-> "query", required |-> FALSE,
                         schema |-> NumberSchema]>>)}

ResponseOptions ==
    {<<>>,
     ("responses" :> ("200" :> JsonContent(TodoList))),
     ("responses" :> ("204" :> [description |-> "No content"]))}

Operations ==
    {id @@ body @@ params @@ responses :
        id \in OperationIdOptions, body \in RequestBodyOptions,
        params \in ParameterOptions, responses \in ResponseOptions}

Paths ==
    {"/todos", "/todos/{id}", "/orgs/{orgId}/users/{userId}", "/{id}",
     "/api/User-Profiles.v2", "/items/{id}/parts/{id}"}

httpMethods == <<"get", "post", "put", "delete", "patch">>

HttpVerbs == {httpMethods[i] : i \in 1..Len(httpMethods)}

Entry(path, method, operation) == [path |-> path, method |-> method, operation |-> operation]

\* the documents of the end-to-end scenarios: /todos and /todos/{id}, without
\* and with operationIds, and a secured operation
PlainGet == ("responses" :> ("200" :> JsonContent(TodoList)))
PlainPut == ("requestBody" :> JsonContent(TodoInputRef))
             @@ ("responses" :> ("200" :> JsonContent(TodoRef)))
PlainDelete == ("responses" :> ("204" :> [description |-> "Todo deleted"]))

ScenarioA ==
    [entries |-> <<Entry("/todos", "get", PlainGet),
                   Entry("/todos/{id}", "get", PlainGet),
                   Entry("/todos/{id}", "put", PlainPut),
                   Entry("/todos/{id}", "delete", PlainDelete)>>]

ScenarioB ==
    [entries |-> <<Entry("/todos", "get",
                         [operationId |-> "getTodos", summary |-> "Get all todos"] @@ PlainGet),
                   Entry("/todos/{id}", "get", ("operationId" :> "getTodoById") @@ PlainGet),
                   Entry("/todos/{id}", "put", ("operationId" :> "updateTodo") @@ PlainPut),
                   Entry("/todos/{id}", "delete",
                         ("operationId" :> "deleteTodo") @@ PlainDelete)>>]

ScenarioD ==
    [entries |-> <<Entry("/secure", "get",
                         [operationId |-> "getSecure",
                          description |-> "Secure endpoint",
                          security |-> <<<< <<"basicAuth", <<>>>> >>>>] @@ PlainGet),
                   Entry("/secure", "post",
                         ("security" :> <<<< <<"oauth", <<"read", "write">>>>,
                                             <<"missing", <<>>>> >>>>) @@ PlainPut),
                   Entry("/open", "get", PlainGet)>>,
     security |-> <<<< <<"apiKey", <<>>>> >>, << <<"digest", <<>>>> >>>>,
     components |->
        [securitySchemes |->
            [basicAuth |-> [type |-> "http", scheme |-> "basic"],
             digest |-> [type |-> "http", scheme |-> "digest"],
             apiKey |-> [type |-> "apiKey", in |-> "header", name |-> "X-API-Key"],
             oauth |-> [type |-> "oauth2"]]]]

\* documents of two operations of one verb whose resource names or method
\* names meet: names equal after normalisation, a resource reached by two
\* paths, a singular name equal to another resource name, equal names
\* after lower-casing
PairDocuments ==
    {[entries |-> <<Entry(paths[1], method, first), Entry(paths[2], method, second)>>] :
        paths \in {<<"/Todos", "/todos">>, <<"/user-profiles", "/user_profiles/{id}">>,
                   <<"/users/{id}", "/orgs/{orgId}/users/{id}">>, <<"/todo", "/todos/{id}">>,
                   <<"/todos", "/todos/{id}">>, <<"/todos", "/users">>},
        method \in {"get", "post"},
        first \in {<<>>, [operationId |-> "getTodo"]},
        second \in {<<>>, [operationId |-> "getTodo"], [operationId |-> "GetTodo"]}}

Documents ==
    {[entries |-> <<Entry(path, method, operation)>>] :
        path \in Paths, method \in HttpVerbs, operation \in Operations}
    \cup {ScenarioA, ScenarioB, ScenarioD}
    \cup PairDocuments

----------------------------------------------------------------------------
(* generateClientFromOpenAPI, one step per loop iteration *)

InitSchemaIdle ==
    /\ inSchema = Undefined
    /\ inTypeName = ""
    /\ inOperation = <<>>
    /\ clientType = Pending
    /\ declType = Pending
    /\ interfaceText = Pending
    /\ queryType = Pending

Init ==
    /\ document \in Documents
    /\ pc = "analyze"
    /\ analysed = <<>>
    /\ resourceGroups = <<>>
    /\ verbIndex = 0
    /\ groupIndex = 0
    /\ directMethods = <<>>
    /\ fallbackMethods = <<>>
    /\ emitted = <<>>
    /\ clientCode = ""
    /\ InitSchemaIdle
    /\ InitCallIdle
    /\ InitFileIdle

\* one iteration of the loop over Object.entries(paths) and its operations
AnalyzePath ==
    /\ pc = "analyze"
    /\ Len(analysed) < Len(document.entries)
    /\ LET entry == document.entries[Len(analysed) + 1]
       IN  analysed' = Append(analysed, analyzePath(entry.path, entry.method, entry.operation))
    /\ UNCHANGED <<document, pc, resourceGroups, verbIndex, groupIndex, directMethods,
                   fallbackMethods, emitted, clientCode>>
    /\ UNCHANGED <<schemaVars, callVars, fileVars>>

GroupPaths ==
    /\ pc = "analyze"
    /\ Len(analysed) = Len(document.entries)
    /\ resourceGroups' = groupPathsByResource(analysed)
    /\ verbIndex' = 1
    /\ pc' = "open"
    /\ UNCHANGED <<document, analysed, groupIndex, directMethods, fallbackMethods,
                   emitted, clientCode>>
    /\ UNCHANGED <<schemaVars, callVars, fileVars>>

\* resourceGroups[method] || {}
methodPaths(groups, method) == SelectSeq(groups, LAMBDA g : g.method = method)

OpenVerbBlock ==
    /\ pc = "open"
    /\ clientCode' = clientCode \o "  " \o httpMethods[verbIndex] \o " = {\n"
    /\ directMethods' = <<>>
    /\ fallbackMethods' = <<>>
    /\ groupIndex' = 1
    /\ pc' = "groups"
    /\ UNCHANGED <<document, analysed, resourceGroups, verbIndex, emitted>>
    /\ UNCHANGED <<schemaVars, callVars, fileVars>>

normalizeName(resourceName) ==
    ToLowerCase(ReplaceAll(ReplaceAll(resourceName, ".", "_"), "-", "_"))

HasOperationId(operation) == Has(operation, "operationId") /\ operation.operationId # ""

\* paths.find(predicate), as the list of the first hit
Find(paths, Test(_)) ==
    LET hits == SelectSeq(paths, Test) IN IF Len(hits) = 0 THEN <<>> ELSE <<hits[1]>>

Member(pathInfo, generator, resourceName, code) ==
    [pathInfo |-> pathInfo, generator |-> generator, resourceName |-> resourceName,
     code |-> code]

\* the member pushed for the path found, if any: the direct method of an
\* operation with operationId, the fallback method otherwise
pushedMember(found, fallback, resourceName, api) ==
    IF Len(found) = 0 THEN <<>>
    ELSE Bind(found[1], LAMBDA pathInfo :
            IF HasOperationId(pathInfo.operation)
            THEN <<Member(pathInfo, "direct", resourceName,
                          generateDirectMethod(pathInfo, api))>>
            ELSE IF fallback = "collection"
            THEN <<Member(pathInfo, "collection", resourceName,
                          generateCollectionMethods(resourceName, pathInfo, api))>>
            ELSE <<Member(pathInfo, "resource", resourceName,
                          generateResourceMethods(resourceName, pathInfo, api))>>)

\* the members pushed by one iteration over Object.entries(methodPaths)
groupMembers(group, api) ==
    Bind(normalizeName(group.resourceName), LAMBDA resourceName :
        pushedMember(Find(group.paths, LAMBDA p : p.isCollection), "collection",
                     resourceName, api)
        \o pushedMember(Find(group.paths, LAMBDA p : p.isResource), "resource",
                        resourceName, api))

Codes(members) == [i \in 1..Len(members) |-> members[i].code]

EmitGroup ==
    /\ pc = "groups"
    /\ groupIndex <= Len(methodPaths(resourceGroups, httpMethods[verbIndex]))
    /\ \E group \in {methodPaths(resourceGroups, httpMethods[verbIndex])[groupIndex]} :
       \E members \in {groupMembers(group, document)} :
           /\ directMethods' = directMethods
                \o Codes(SelectSeq(members, LAMBDA m : m.generator = "direct"))
           /\ fallbackMethods' = fallbackMethods
                \o Codes(SelectSeq(members, LAMBDA m : m.generator # "direct"))
           /\ emitted' = emitted \o members
    /\ groupIndex' = groupIndex + 1
    /\ UNCHANGED <<document, pc, analysed, resourceGroups, verbIndex, clientCode>>
    /\ UNCHANGED <<schemaVars, callVars, fileVars>>

CloseVerbBlock ==
    /\ pc = "groups"
    /\ groupIndex > Len(methodPaths(resourceGroups, httpMethods[verbIndex]))
    /\ IF verbIndex < Len(httpMethods)
       THEN /\ clientCode' = clientCode \o Join(directMethods, "")
                                \o Join(fallbackMethods, "") \o "  };\n\n"
            /\ verbIndex' = verbIndex + 1
            /\ pc' = "open"
       ELSE /\ clientCode' = clientCode \o Join(directMethods, "")
                                \o Join(fallbackMethods, "") \o "  };\n\n"
                                \o "}\n\nexport function createClient(config: ClientConfig): ApiClient {\n"
                                \o "  return new ApiClient(config);\n}\n\n"
            /\ verbIndex' = verbIndex
            /\ pc' = "done"
    /\ UNCHANGED <<document, analysed, resourceGroups, groupIndex, directMethods,
                   fallbackMethods, emitted>>
    /\ UNCHANGED <<schemaVars, callVars, fileVars>>

Next == AnalyzePath \/ GroupPaths \/ OpenVerbBlock \/ EmitGroup \/ CloseVerbBlock

Spec == Init /\ [][Next]_vars

----------------------------------------------------------------------------
(* Client generator: the types the generated file imports *)

builtInTypes == <<"string", "number", "boolean", "any", "unknown", "never", "void">>

\* the characters of type names and type expressions, in UTF-16 code unit order
CodeUnits ==
    " \"$&()," \o DigitChars \o ";<>?" \o UpperChars \o "[]_" \o LowerChars \o "{|}"

\* the comparison of Array.prototype.sort without a comparator
RECURSIVE SortsBefore(_, _)
SortsBefore(a, b) ==
    IF a = "" THEN b # ""
    ELSE IF b = "" THEN FALSE
    ELSE IF Char(a, 1) = Char(b, 1)
    THEN SortsBefore(SubSeq(a, 2, Len(a)), SubSeq(b, 2, Len(b)))
    ELSE IndexOf(CodeUnits, Char(a, 1)) < IndexOf(CodeUnits, Char(b, 1))

RECURSIVE sort(_)
sort(types) ==
    IF types = {} THEN <<>>
    ELSE LET first == CHOOSE t \in types : \A u \in types \ {t} : SortsBefore(t, u)
         IN  <<first>> \o sort(types \ {first})

\* what one type string adds to the set: nothing for "", "any" and inline
\* types, the string without its first "[]" otherwise
baseTypes(type) ==
    IF type = "" \/ type = "any" \/ Includes(type, "{") THEN {}
    ELSE LET baseType == IF Includes(type, "[]") THEN Replace(type, "[]", "") ELSE type
         IN  IF baseType = "" \/ baseType = "any" THEN {} ELSE {baseType}

extractUsedTypes(pathInfos, apiData) ==
    LET requestTypes ==
            UNION {IF Has(pathInfos[i].operation, "requestBody")
                   THEN baseTypes(getRequestType(pathInfos[i].operation)) ELSE {} :
                   i \in 1..Len(pathInfos)}
        \* a response type without "[]" is added as it is
        responseTypes ==
            UNION {baseTypes(getResponseType(pathInfos[i].operation)) :
                   i \in 1..Len(pathInfos)}
        schemaNames ==
            IF Has(apiData, "components") /\ Has(apiData.components, "schemas")
            THEN {apiData.components.schemas[i][1] :
                    i \in 1..Len(apiData.components.schemas)}
            ELSE {}
        usedTypes == requestTypes \cup responseTypes \cup schemaNames
    IN  sort({type \in usedTypes :
                \A i \in 1..Len(builtInTypes) : builtInTypes[i] # type})

\* the import block of the generated file
importLines(usedTypes) ==
    Join([i \in 1..Len(usedTypes) |->
            "import { " \o usedTypes[i] \o " } from \"./types.ts\";"], "\n")

----------------------------------------------------------------------------
(* The two generators as functions of the document and of the clock *)

\* new Date().toISOString() when the clock shows the given day
toISOString(clock) == "2025-01-0" \o ToString(clock) \o "T00:00:00.000Z"

generateTypeDefinition(typeName, schema) ==
    IF schema.k \in {"undefined", "null"} THEN Throw
    ELSE IF Get(schema, "type") = Str("object") /\ Truthy(Get(schema, "properties"))
    THEN generateInterface(typeName, schema)
    ELSE IF Truthy(Get(schema, "enum"))
    THEN \* generateEnum
         LET values == enumValues(Get(schema, "enum"))
         IN  IF values.threw THEN Throw
             ELSE Return("export type " \o typeName \o " = " \o values.value \o ";")
    ELSE \* generateTypeAlias
         LET type == typeGenerators_convertSchemaToType(schema)
         IN  IF type.threw THEN Throw
             ELSE Return("export type " \o typeName \o " = " \o type.value \o ";")

\* the schema collection is the list of its entries <<typeName, schema>>
createTypesFromApiData(apiData, clock) ==
    IF ~Has(apiData, "components") THEN Throw    \* .schemas of undefined
    ELSE IF ~Has(apiData.components, "schemas") THEN Return("")
    ELSE LET schemas == apiData.components.schemas
             definitions == [i \in 1..Len(schemas) |->
                                generateTypeDefinition(schemas[i][1], schemas[i][2])]
         IN  IF AnyThrew(definitions) THEN Throw
             ELSE Return("// Auto-generated TypeScript types from OpenAPI schema\n"
                         \o "  // Generated on: " \o toISOString(clock) \o "\n"
                         \o "  \n"
                         \o "  "
                         \o Join([i \in 1..Len(schemas) |-> definitions[i].value \o "\n\n"],
                                 ""))

clientHeader_stamped(usedTypes, apiData, clock) ==
    "// Auto-generated API client, " \o toISOString(clock) \o "\n"

\* the text before the verb blocks
clientHeader(usedTypes, apiData, clock) ==
    "// Auto-generated API client from OpenAPI specification\n"
    \o "// Generated on: " \o toISOString(clock) \o "\n"
    \o "\n"
    \o "// Import generated types\n"
    \o importLines(usedTypes) \o "\n"
    \o "\n"
    \o "type Servers = "
    \o (IF Has(apiData, "servers")
        THEN Join([i \in 1..Len(apiData.servers) |->
                     (IF i > 1 THEN "|" ELSE "") \o "'" \o apiData.servers[i].url \o "'"],
                  ",")
        ELSE "undefined")
    \o ";\n"
    \o "\n"
    \o "interface ClientConfig {\n"
    \o "  baseUrl: Servers | string & {};\n"
    \o "  headers?: Record<string, string>;\n"
    \o "}\n"
    \o "\n"
    \o "interface QueryParams {\n"
    \o "  [key: string]: string | number | boolean | undefined;\n"
    \o "}\n"
    \o "\n"
    \o "interface RequestBody {\n"
    \o "  [key: string]: any;\n"
    \o "}\n"
    \o "\n"
    \o "interface ApiResponse<T = any> {\n"
    \o "  data: T;\n"
    \o "  status: number;\n"
    \o "  statusText: string;\n"
    \o "}\n"
    \o "\n"
    \o "class ApiClient {\n"
    \o "  private config: ClientConfig;\n"
    \o "\n"
    \o "  constructor(config: ClientConfig) {\n"
    \o "    this.config = config;\n"
    \o "  }\n"
    \o "\n"

\* one verb block: the direct methods of all groups, then the fallback methods
verbBlock(resourceGroups_, method, apiData) ==
    Bind(methodPaths(resourceGroups_, method), LAMBDA groups :
        Bind(Flatten([g \in 1..Len(groups) |-> groupMembers(groups[g], apiData)]),
             LAMBDA members :
                "  " \o method \o " = {\n"
                \o Join(Codes(SelectSeq(members, LAMBDA m : m.generator = "direct")), "")
                \o Join(Codes(SelectSeq(members, LAMBDA m : m.generator # "direct")), "")
                \o "  };\n\n"))

\* the paths of the document are the list of its entries [path, method, operation]
generateClientFromOpenAPI(apiData, clock) ==
    IF ~Has(apiData, "entries") THEN Throw    \* Object.entries(undefined)
    ELSE Bind([i \in 1..Len(apiData.entries) |->
                  analyzePath(apiData.entries[i].path, apiData.entries[i].method,
                              apiData.entries[i].operation)],
              LAMBDA pathInfos :
                 Bind(groupPathsByResource(pathInfos), LAMBDA groups :
                    Return(clientHeader(extractUsedTypes(pathInfos, apiData), apiData, clock)
                           \o Join([v \in 1..Len(httpMethods) |->
                                      verbBlock(groups, httpMethods[v], apiData)], "")
                           \o "}\n\nexport function createClient(config: ClientConfig): ApiClient {\n"
                           \o "  return new ApiClient(config);\n}\n\n")))

----------------------------------------------------------------------------
(* generateFromOpenAPI, one step per file-system operation or generator *)

\* a document with a path set, a schema registry of two schemas and a servers
\* list, and the documents that lack one of these or have them empty
FullDocument ==
    [entries |-> <<Entry("/todos", "get", ("operationId" :> "getTodos") @@ PlainGet),
                   Entry("/todos/{id}", "delete", PlainDelete)>>,
     components |->
        [schemas |-> <<<<"Todo", Obj(<<<<"type", Str("object")>>,
                                       <<"properties", Obj(<<<<"id", StringSchema>>>>)>>,
                                       <<"required", Arr(<<Str("id")>>)>>>>)>>,
                       <<"Role", Obj(<<<<"enum", Arr(<<Str("admin"), Str("user")>>)>>>>)>>>>],
     servers |-> <<[url |-> "https://api.example.com"]>>]

GenerateDocuments ==
    LET Without(field) == [k \in DOMAIN FullDocument \ {field} |-> FullDocument[k]]
        With(field, value) == (field :> value) @@ Without(field)
    IN  {FullDocument, Without("entries"), Without("components"), Without("servers"),
         With("entries", <<>>),
         With("components", [securitySchemes |-> <<>>]),
         With("components", [schemas |-> <<>>]),
         With("components", [schemas |-> <<FullDocument.components.schemas[2],
                                            FullDocument.components.schemas[1]>>]),
         <<>>}

\* the spec file (missing, unparseable, or holding a document) and the options
Runs ==
    {[spec |-> spec, generateTypes |-> types, generateClient |-> client] :
        spec \in {[exists |-> FALSE], [exists |-> TRUE, parses |-> FALSE]}
                 \cup {[exists |-> TRUE, parses |-> TRUE, apiData |-> d] :
                         d \in GenerateDocuments},
        types \in BOOLEAN, client \in BOOLEAN}

InitGenerate ==
    /\ run \in Runs
    /\ step = "exists"
    /\ effects = <<>>
    /\ files \in {[dir |-> dir, artifacts |-> <<>>] : dir \in BOOLEAN}
    /\ outcome = [before |-> files]
    /\ now = 1
    /\ history = <<>>
    /\ InitSchemaIdle
    /\ InitClientIdle
    /\ InitCallIdle

afterExists_always(found) == "read"

\* if (!await exists(specPath, { isFile: true })) throw ...
afterExists(found) == IF found THEN "read" ELSE "raised"

CheckExists ==
    /\ step = "exists"
    /\ effects' = Append(effects, "exists")
    /\ step' = afterExists(run.spec.exists)
    /\ outcome' = IF step' = "raised"
                  THEN outcome @@ [error |-> "OpenAPI specification file not found"]
                  ELSE outcome
    /\ UNCHANGED <<run, files, now, history>>
    /\ UNCHANGED <<schemaVars, clientVars, callVars>>

\* Deno.readTextFile raises on a file that does not exist
ReadSpec ==
    /\ step = "read"
    /\ effects' = Append(effects, "read")
    /\ IF run.spec.exists
       THEN step' = "parse" /\ outcome' = outcome
       ELSE step' = "raised" /\ outcome' = outcome @@ [error |-> "NotFound"]
    /\ UNCHANGED <<run, files, now, history>>
    /\ UNCHANGED <<schemaVars, clientVars, callVars>>

\* JSON.parse or the YAML parse
ParseSpec ==
    /\ step = "parse"
    /\ effects' = Append(effects, "parse")
    /\ IF run.spec.parses
       THEN step' = "mkdir" /\ outcome' = outcome @@ [apiData |-> run.spec.apiData]
       ELSE step' = "raised" /\ outcome' = outcome @@ [error |-> "SyntaxError"]
    /\ UNCHANGED <<run, files, now, history>>
    /\ UNCHANGED <<schemaVars, clientVars, callVars>>

\* Deno.mkdir(outputDir, { recursive: true })
MakeDir ==
    /\ step = "mkdir"
    /\ effects' = Append(effects, "mkdir")
    /\ files' = [files EXCEPT !.dir = TRUE]
    /\ step' = "types"
    /\ UNCHANGED <<run, outcome, now, history>>
    /\ UNCHANGED <<schemaVars, clientVars, callVars>>

\* the types step: nothing is written for an empty typesContent
GenerateTypes ==
    /\ step = "types"
    /\ IF ~run.generateTypes
       THEN step' = "client" /\ UNCHANGED <<effects, files, outcome>>
       ELSE \E typesContent \in {createTypesFromApiData(outcome.apiData, now)} :
               IF typesContent.threw
               THEN /\ step' = "raised"
                    /\ outcome' = outcome @@ [error |-> typesContent.value]
                    /\ UNCHANGED <<effects, files>>
               ELSE IF typesContent.value # ""
               THEN /\ step' = "client"
                    /\ effects' = Append(effects, "write types.ts")
                    /\ files' = [files EXCEPT
                                   !.artifacts = ("types.ts" :> typesContent.value) @@ @]
                    /\ outcome' = outcome @@ [typesPath |-> "types.ts",
                                              typesContent |-> typesContent.value]
               ELSE step' = "client" /\ UNCHANGED <<effects, files, outcome>>
    /\ UNCHANGED <<run, now, history>>
    /\ UNCHANGED <<schemaVars, clientVars, callVars>>

\* the client step, and the return of the result
GenerateClient ==
    /\ step = "client"
    /\ IF ~run.generateClient
       THEN step' = "returned" /\ UNCHANGED <<effects, files, outcome>>
       ELSE \E clientContent \in {generateClientFromOpenAPI(outcome.apiData, now)} :
               IF clientContent.threw
               THEN /\ step' = "raised"
                    /\ outcome' = outcome @@ [error |-> clientContent.value]
                    /\ UNCHANGED <<effects, files>>
               ELSE /\ step' = "returned"
                    /\ effects' = Append(effects, "write client.ts")
                    /\ files' = [files EXCEPT
                                   !.artifacts = ("client.ts" :> clientContent.value) @@ @]
                    /\ outcome' = outcome @@ [clientPath |-> "client.ts",
                                              clientContent |-> clientContent.value]
    /\ UNCHANGED <<run, now, history>>
    /\ UNCHANGED <<schemaVars, clientVars, callVars>>

\* the next call of generateFromOpenAPI, later on the clock: on the same spec
\* file, on the spec file of an earlier call, or on the full document
CallAgain ==
    /\ step \in {"returned", "raised"}
    /\ Len(history) + 1 < MaxCalls
    /\ history' = Append(history, [run |-> run, outcome |-> outcome])
    /\ run' \in {run} \cup {history[i].run : i \in 1..Len(history)}
                \cup {[spec |-> [exists |-> TRUE, parses |-> TRUE, apiData |-> FullDocument],
                       generateTypes |-> TRUE, generateClient |-> TRUE]}
    /\ now' = now + 1
    /\ step' = "exists"
    /\ effects' = <<>>
    /\ outcome' = [before |-> files]
    /\ UNCHANGED files
    /\ UNCHANGED <<schemaVars, clientVars, callVars>>

NextGenerate ==
    \/ CheckExists
    \/ ReadSpec
    \/ ParseSpec
    \/ MakeDir
    \/ GenerateTypes
    \/ GenerateClient
    \/ CallAgain

SpecGenerate == InitGenerate /\ [][NextGenerate]_vars

----------------------------------------------------------------------------
(* Calls of the helpers of the client generator, one helper per call *)

\* the words and separator characters operationIds are made of
IdPieces == {"get", "Todo", "ID", "x9", "-", "_", ".", " "}

OperationIds ==
    UNION {{Join(pieces, "") : pieces \in [1..n -> IdPieces]} : n \in 1..MaxPieces}

\* getMethodName(operation, fallback), the operation with and without other fields
MethodNameCalls ==
    {[fn |-> "getMethodName", operation |-> ("operationId" :> id) @@ other,
      fallback |-> fallback] :
        id \in OperationIds,
        other \in {<<>>, [summary |-> "List", requestBody |-> <<>>]},
        fallback \in {"", "data"}}

ArrayOf(items) == Obj(<<<<"type", Str("array")>>, <<"items", items>>>>)

\* operations whose types are collected; the response schema is a reference,
\* an array, an array of arrays, a primitive array, an inline object or a union
TypedOperations ==
    {body @@ responses :
        body \in {<<>>} \cup {("requestBody" :> JsonContent(s)) :
                                s \in {TodoInputRef, ArrayOf(TodoInputRef)}},
        responses \in {<<>>} \cup {("responses" :> ("200" :> JsonContent(s))) :
                                     s \in {TodoRef, TodoList, ArrayOf(TodoList),
                                            ArrayOf(StringSchema), IdRecordSchema,
                                            Obj(<<<<"oneOf",
                                                    Arr(<<TodoRef, TodoInputRef>>)>>>>)}}}

\* extractUsedTypes(pathInfos, apiData) on one or two operations
UsedTypesCalls ==
    {[fn |-> "extractUsedTypes", pathInfos |-> pathInfos, apiData |-> apiData] :
        pathInfos \in {<<analyzePath("/todos", "post", a)>> : a \in TypedOperations}
                      \cup {<<analyzePath("/todos", "post", a),
                              analyzePath("/todos/{id}", "put", b)>> :
                            a \in TypedOperations, b \in TypedOperations},
        apiData \in {<<>>,
                     [components |->
                        [schemas |-> <<<<"User", IdRecordSchema>>,
                                       <<"Todo", IdRecordSchema>>>>]]}}

\* the security-scheme registry: one scheme of every type the labels tell apart
SecuritySchemes ==
    [basicAuth |-> [type |-> "http", scheme |-> "basic"],
     bearerAuth |-> [type |-> "http", scheme |-> "bearer"],
     digest |-> [type |-> "http", scheme |-> "digest"],
     apiKey |-> [type |-> "apiKey", in |-> "header", name |-> "X-API-Key"],
     oauth |-> [type |-> "oauth2"],
     oidc |-> [type |-> "openIdConnect"],
     mtls |-> [type |-> "mutualTLS"]]

\* getSecurityRequirements(operation, apiData): the operation and the document
\* without and with a security list, the document without and with a registry.
\* The requirements have one entry, naming a declared or an undeclared scheme
\* without and with scopes, or three entries; the lists have up to two
\* requirements.
SecurityCalls ==
    LET Requirements ==
            {<< <<schemeName, scopes>> >> :
                schemeName \in DOMAIN SecuritySchemes \cup {"missing", "constructor"},
                scopes \in {<<>>, <<"read", "write">>}}
            \cup {<< <<"missing", <<>>>>, <<"oauth", <<"read">>>>, <<"basicAuth", <<>>>> >>}
        SecurityLists ==
            {<<>>} \cup {<<first>> : first \in Requirements}
            \cup {<<first, << <<"apiKey", <<>>>> >> >> : first \in Requirements}
    IN  {[fn |-> "getSecurityRequirements", operation |-> operation,
          apiData |-> global @@ registry] :
            operation \in {<<>>} \cup {("security" :> list) : list \in SecurityLists},
            global \in {<<>>} \cup {("security" :> list) :
                                       list \in {<<>>, << << <<"digest", <<>>>> >> >>}},
            registry \in {<<>>, ("components" :> [schemas |-> <<>>]),
                          ("components" :> [securitySchemes |-> SecuritySchemes])}}

\* the segments of path templates, each with the parameters its {...} tokens name
PathSegments ==
    {[text |-> "todos", params |-> <<>>],
     [text |-> "v1", params |-> <<>>],
     [text |-> "", params |-> <<>>],
     [text |-> "{id}", params |-> <<"id">>],
     [text |-> "{userId}", params |-> <<"userId">>],
     [text |-> "a{b}", params |-> <<"b">>],
     [text |-> "{a}{b}", params |-> <<"a", "b">>]}

\* analyzePath(path, method, operation) on "/" followed by up to MaxSegments
\* segments joined by "/"
PathCalls ==
    UNION {{[fn |-> "analyzePath", segments |-> segments,
             path |-> "/" \o Join([i \in 1..n |-> segments[i].text], "/"),
             method |-> "get", operation |-> <<>>] :
            segments \in [1..n -> PathSegments]} : n \in 0..MaxSegments}

Calls == MethodNameCalls \cup UsedTypesCalls \cup SecurityCalls \cup PathCalls

InitCall ==
    /\ call \in Calls
    /\ returned = <<>>
    /\ InitSchemaIdle
    /\ InitClientIdle
    /\ InitFileIdle

CallGetMethodName ==
    /\ call.fn = "getMethodName"
    /\ returned = <<>>
    /\ returned' = <<getMethodName(call.operation, call.fallback)>>
    /\ UNCHANGED <<call, schemaVars, clientVars, fileVars>>

\* the name returned is used as the operationId of another operation
RenameReturned ==
    /\ call.fn = "getMethodName"
    /\ Len(returned) = 1
    /\ returned' = Append(returned,
                         getMethodName([operationId |-> returned[1]], call.fallback))
    /\ UNCHANGED <<call, schemaVars, clientVars, fileVars>>

CallExtractUsedTypes ==
    /\ call.fn = "extractUsedTypes"
    /\ returned = <<>>
    /\ returned' = <<extractUsedTypes(call.pathInfos, call.apiData)>>
    /\ UNCHANGED <<call, schemaVars, clientVars, fileVars>>

\* the list returned is mapped to the import lines of the generated file
EmitImports ==
    /\ call.fn = "extractUsedTypes"
    /\ Len(returned) = 1
    /\ returned' = Append(returned, importLines(returned[1]))
    /\ UNCHANGED <<call, schemaVars, clientVars, fileVars>>

CallGetSecurityRequirements ==
    /\ call.fn = "getSecurityRequirements"
    /\ returned = <<>>
    /\ returned' = <<getSecurityRequirements(call.operation, call.apiData)>>
    /\ UNCHANGED <<call, schemaVars, clientVars, fileVars>>

CallAnalyzePath ==
    /\ call.fn = "analyzePath"
    /\ returned = <<>>
    /\ returned' = <<analyzePath(call.path, call.method, call.operation)>>
    /\ UNCHANGED <<call, schemaVars, clientVars, fileVars>>

NextCall ==
    \/ CallGetMethodName
    \/ RenameReturned
    \/ CallExtractUsedTypes
    \/ EmitImports
    \/ CallGetSecurityRequirements
    \/ CallAnalyzePath

SpecCall == InitCall /\ [][NextCall]_vars

----------------------------------------------------------------------------
(* Properties of the method shapes *)

Emitted == {emitted[i] : i \in 1..Len(emitted)}

HasBody(m) == Has(m.pathInfo.operation, "requestBody")
Verb(m) == m.pathInfo.method
DeclaresQuery(m) ==
    /\ Has(m.pathInfo.operation, "parameters")
    /\ \E i \in 1..Len(m.pathInfo.operation.parameters) :
          m.pathInfo.operation.parameters[i].in = "query"

\* the resource name without one trailing "s"
Singularised(name) ==
    IF Len(name) > 0 /\ Char(name, Len(name)) = "s" THEN SubSeq(name, 1, Len(name) - 1)
    ELSE name

\* the head of the member keyed by the first path parameter
KeyedHead(m) ==
    "    " \o Singularised(m.resourceName) \o ": (" \o m.pathInfo.pathParams[1]
    \o ": string) => "

\* resource(id).member(args): an object of methods behind the key
IsKeyedMember(code, head, member, args) ==
    /\ StartsWith(code, head \o "({\n")
    /\ Includes(code, "\n      " \o member \o ": async (" \o args)
    /\ EndsWith(code, "\n    }),\n")

\* resource(id)(args): a function behind the key
IsCurriedMember(code, head, args) ==
    /\ StartsWith(code, head \o "/**\n")
    /\ Includes(code, " */\nasync (" \o args)
    /\ EndsWith(code, "\n    },\n")

NoArgs == "): Promise<ApiResponse<"
BodyArg == "body: "

NamedHead(m) == "    " \o getMethodName(m.pathInfo.operation, "") \o ": "

IsNestedMember(code, name, member, args) ==
    /\ StartsWith(code, "    " \o name \o ": {\n")
    /\ Includes(code, "\n      " \o member \o ": async (" \o args)
    /\ EndsWith(code, "\n    },\n")

\* a function under the resource name
IsDirectMember(code, name, args) ==
    /\ StartsWith(code, "    " \o name \o ": /**\n")
    /\ Includes(code, " */\nasync (" \o args)
    /\ EndsWith(code, "\n    },\n")

RequiresQuery(operation) ==
    /\ Has(operation, "parameters")
    /\ \E i \in 1..Len(operation.parameters) :
          /\ operation.parameters[i].in = "query"
          /\ Has(operation.parameters[i], "required")
          /\ operation.parameters[i].required = TRUE

\* C4: a collection-shaped GET without operationId is emitted as
\* resource.queryParams(params) if it declares a query parameter and as the
\* direct resource(params), params defaulting to {}, otherwise; exactly one
\* of the two forms is emitted.
C4_QueryParamsOrDirect ==
    \A m \in Emitted :
        (m.generator = "collection" /\ Verb(m) = "get") =>
            LET nested == IsNestedMember(m.code, m.resourceName, "queryParams", "params: ")
                direct == IsDirectMember(m.code, m.resourceName, "params: ")
            IN  /\ DeclaresQuery(m) => nested
                /\ ~DeclaresQuery(m) =>
                      IsDirectMember(m.code, m.resourceName, "params: QueryParams = {}): ")
                /\ nested # direct
                /\ nested => ~Includes(m.code, " */\nasync (")
                /\ direct => ~Includes(m.code, "queryParams: async (")

C4_Witness ==
    /\ pc = "done"
    /\ \E m \in Emitted :
          /\ m.generator = "collection" /\ Verb(m) = "get" /\ DeclaresQuery(m)
          /\ RequiresQuery(m.pathInfo.operation)
          /\ m.resourceName = "user_profiles_v2"

\* path parameters, then the query object (GET only), then the body
ExpectedParams(m) ==
    LET operation == m.pathInfo.operation
    IN  [i \in 1..Len(m.pathInfo.pathParams) |-> m.pathInfo.pathParams[i] \o ": string"]
        \o (IF Verb(m) = "get"
            THEN <<"params: " \o getQueryParamsType(operation).type
                   \o (IF RequiresQuery(operation) THEN "" ELSE " = {}")>>
            ELSE <<>>)
        \o (IF HasBody(m) THEN <<BodyArg \o getRequestType(operation)>> ELSE <<>>)

\* C5: an operation with operationId that is collection-shaped, or a
\* resource-shaped GET, is emitted by generateDirectMethod as a single-step
\* method whose parameters are the path parameters as strings in template
\* order, then the query-params object (GET only, defaulted to {} unless a
\* query parameter is required), then the body (only with a request body).
C5_DirectParameterOrder ==
    \A m \in Emitted :
        (m.generator = "direct" /\ (m.pathInfo.isCollection \/ Verb(m) = "get")) =>
            /\ Includes(m.code, "\n" \o NamedHead(m) \o "async ("
                                \o Join(ExpectedParams(m), ", ") \o NoArgs)
            /\ ~Includes(m.code, ") => async (")

C5_Witness ==
    /\ pc = "done"
    /\ \E m \in Emitted :
          /\ m.generator = "direct" /\ Verb(m) = "get" /\ HasBody(m)
          /\ Len(m.pathInfo.pathParams) = 2
          /\ RequiresQuery(m.pathInfo.operation)

----------------------------------------------------------------------------
(* Properties of the emitted request *)

\* the request target of an emitted method: the text of the template literal
\* after ${this.config.baseUrl}; empty for a member that sends no request
UrlOf(code) ==
    LET base == "${this.config.baseUrl}"
        rest == SubSeq(code, IndexOf(code, base) + Len(base), Len(code))
    IN  IF Includes(code, base) THEN SubSeq(rest, 1, IndexOf(rest, Backtick) - 1) ELSE ""

\* the names n referenced as ${n} in the text
ReferencedIn(url) ==
    {SubSeq(url, i + 2, j - 1) :
        <<i, j>> \in {<<a, b>> \in (1..Len(url)) \X (1..Len(url)) :
                        /\ a + 1 < b
                        /\ SubSeq(url, a, a + 1) = "${"
                        /\ Char(url, b) = "}"
                        /\ ~Includes(SubSeq(url, a + 2, b - 1), "}")}}

\* the emitted method takes a string parameter of this name
DeclaresParam(code, name) ==
    \/ Includes(code, "(" \o name \o ": string")
    \/ Includes(code, ", " \o name \o ": string")

\* C13: in every emitted method the request URL contains no unsubstituted
\* {name} placeholder and references only parameters the method declares.
C13_UrlSubstituted ==
    \A m \in Emitted :
        LET url == UrlOf(m.code)
        IN  /\ \A i \in 1..Len(url) :
                  Char(url, i) = "{" => (i > 1 /\ Char(url, i - 1) = "$")
            /\ \A name \in ReferencedIn(url) : DeclaresParam(m.code, name)

\* a 200, 201 or 204 response of the operation declares a JSON schema
DeclaresSuccessSchema(operation) ==
    /\ Has(operation, "responses")
    /\ \E i \in 1..Len(SuccessCodes) :
          /\ SuccessCodes[i] \in DOMAIN operation.responses
          /\ Truthy(ContentSchema(operation.responses[SuccessCodes[i]], "application/json"))

SendsRequest(m) == Includes(m.code, "await fetch(")

ReturnsNoPayload(code) ==
    /\ Includes(code, "  data: undefined,\n")
    /\ ~Includes(code, "response.json()")

ReturnsParsedJson(code) ==
    /\ Includes(code, "const data = await response.json();\n")
    /\ Includes(code, "  data,\n")
    /\ ~Includes(code, "data: undefined")

\* C14: an emitted DELETE method returns no payload and does not parse the
\* body exactly when the operation declares no success-response schema; every
\* other emitted method parses the body as JSON; both return the response's
\* status and statusText.
C14_DeleteVoidIffNoSchema ==
    \A m \in Emitted :
        SendsRequest(m) =>
            /\ IF Verb(m) = "delete" /\ ~DeclaresSuccessSchema(m.pathInfo.operation)
               THEN ReturnsNoPayload(m.code)
               ELSE ReturnsParsedJson(m.code)
            /\ Includes(m.code, "  status: response.status,\n")
            /\ Includes(m.code, "  statusText: response.statusText,\n")

\* the query-location parameters of an operation, in declaration order
DeclaredQueryParams(operation) ==
    IF Has(operation, "parameters")
    THEN SelectSeq(operation.parameters, LAMBDA p : p.in = "query")
    ELSE <<>>

IsRequiredParam(param) == Has(param, "required") /\ param.required = TRUE

ExpectedField(param) ==
    (IF IsBareIdentifier(param.name) THEN param.name ELSE "\"" \o param.name \o "\"")
    \o (IF IsRequiredParam(param) THEN "" ELSE "?") \o ": "
    \o convertSchemaToType(IF Has(param, "schema") THEN param.schema
                           ELSE Obj(<<<<"type", Str("string")>>>>)).value

ExpectedParamsArgument(operation) ==
    LET q == DeclaredQueryParams(operation)
    IN  "params: "
        \o (IF Len(q) = 0 THEN "QueryParams"
            ELSE "{ " \o Join([i \in 1..Len(q) |-> ExpectedField(q[i])], "; ") \o " }")
        \o (IF \E i \in 1..Len(q) : IsRequiredParam(q[i]) THEN "" ELSE " = {}")

\* C15: the params argument of an emitted method has, for an operation with
\* query parameters, an inline type with one field per query parameter in
\* declaration order (other locations excluded), optional iff not required,
\* and the = {} default iff no query parameter is required; without query
\* parameters it is QueryParams = {}.
C15_QueryParamsArgument ==
    \A m \in Emitted :
        Includes(m.code, "params: ") =>
            \E close \in {")", ", "} :
                Includes(m.code, "(" \o ExpectedParamsArgument(m.pathInfo.operation) \o close)
                \/ Includes(m.code, ", " \o ExpectedParamsArgument(m.pathInfo.operation) \o close)

C15_Witness ==
    \E m \in Emitted :
        /\ Verb(m) = "get"
        /\ Len(DeclaredQueryParams(m.pathInfo.operation)) = 2
        /\ Includes(m.code, "(params: { q: string; limit?: number })")
        /\ ~Includes(m.code, "= {}")

----------------------------------------------------------------------------
(* Properties of the grouping and of the emission loop *)

Grouped == pc # "analyze"

\* the positions in the document of the members of a group
PositionsOf(group) ==
    [k \in 1..Len(group.paths) |->
        CHOOSE i \in 1..Len(analysed) : analysed[i] = group.paths[k]]

\* C21: two operations of one verb whose resource names are equal after
\* normalisation are members of the same group, and the members of a group
\* are in document order.
C21_GroupedByNormalizedName ==
    Grouped =>
        /\ \A i, j \in 1..Len(analysed) :
              (analysed[i].method = analysed[j].method
               /\ normalizeName(analysed[i].resourceName)
                    = normalizeName(analysed[j].resourceName)) =>
                 \E g \in 1..Len(resourceGroups) :
                    /\ \E k \in 1..Len(resourceGroups[g].paths) :
                          resourceGroups[g].paths[k] = analysed[i]
                    /\ \E k \in 1..Len(resourceGroups[g].paths) :
                          resourceGroups[g].paths[k] = analysed[j]
        /\ \A g \in 1..Len(resourceGroups) :
              \A k \in 1..(Len(resourceGroups[g].paths) - 1) :
                 PositionsOf(resourceGroups[g])[k] < PositionsOf(resourceGroups[g])[k + 1]

Generated == pc = "done"

\* C26: every operation of the document whose verb is get, post, put, delete
\* or patch gives rise to a member of the generated client, also when its
\* (verb, resource) group holds two or more collection-shaped or two or more
\* resource-shaped members.
C26_EveryOperationEmitted ==
    Generated =>
        \A i \in 1..Len(document.entries) :
            document.entries[i].method \in HttpVerbs =>
                \E m \in Emitted :
                    /\ m.pathInfo.path = document.entries[i].path
                    /\ m.pathInfo.method = document.entries[i].method
                    /\ m.pathInfo.operation = document.entries[i].operation

\* the key a member is emitted under in its verb block
MemberKey(m) ==
    IF m.generator = "direct" THEN getMethodName(m.pathInfo.operation, "")
    ELSE IF m.generator = "collection" THEN m.resourceName
    ELSE Singularised(m.resourceName)

IsEmittedUnder(m, key) ==
    StartsWith(m.code, "    " \o key \o ": ") \/ Includes(m.code, "\n    " \o key \o ": ")

\* C27: within each verb block the emitted member names are pairwise distinct.
C27_DistinctMemberNames ==
    \A i, j \in 1..Len(emitted) :
        (i # j /\ Verb(emitted[i]) = Verb(emitted[j])) =>
            \A key \in {MemberKey(emitted[i])} : ~IsEmittedUnder(emitted[j], key)

\* the path up to its first parameter
StaticPrefix(path) ==
    IF Includes(path, "{") THEN SubSeq(path, 1, IndexOf(path, "{") - 1) ELSE path

\* C29: every emitted method issues an HTTP request with its operation's verb
\* to its operation's path; none is a stub that performs no request.
C29_EveryMethodRequests ==
    \A m \in Emitted :
        /\ Includes(m.code, "await fetch(")
        /\ Includes(m.code, "method: '" \o ToUpperCase(Verb(m)) \o "',\n")
        /\ Includes(m.code, "${this.config.baseUrl}" \o StaticPrefix(m.pathInfo.path))

----------------------------------------------------------------------------
(* Properties of method-name resolution *)

IsAlnum(c) == IsLetter(c) \/ IsDigit(c)

OnlyAlnum(s) == \A i \in 1..Len(s) : IsAlnum(Char(s, i))

\* the positions at which a maximal alphanumeric fragment of s starts
FragmentStarts(s) ==
    {i \in 1..Len(s) : IsAlnum(Char(s, i)) /\ (i = 1 \/ ~IsAlnum(Char(s, i - 1)))}

FragmentEnd(s, i) ==
    CHOOSE j \in i..Len(s) :
        /\ OnlyAlnum(SubSeq(s, i, j))
        /\ (j = Len(s) \/ ~IsAlnum(Char(s, j + 1)))

\* the maximal alphanumeric fragments of s, left to right
Fragments(s) ==
    [k \in 1..Cardinality(FragmentStarts(s)) |->
        LET i == CHOOSE st \in FragmentStarts(s) :
                    Cardinality({b \in FragmentStarts(s) : b < st}) = k - 1
        IN  SubSeq(s, i, FragmentEnd(s, i))]

\* first fragment lower-cased, later fragments capitalised, no separator
CamelName(fragments) ==
    Join([k \in 1..Len(fragments) |->
            IF k = 1 THEN ToLowerCase(fragments[k])
            ELSE UpperChar(Char(fragments[k], 1))
                 \o ToLowerCase(SubSeq(fragments[k], 2, Len(fragments[k])))], "")

NameReturned == call.fn = "getMethodName" /\ Len(returned) >= 1

\* C11: for every declared operationId, getMethodName returns the operationId's
\* maximal alphanumeric fragments, empty fragments discarded, the first one
\* lower-cased and each later one capitalised, concatenated; the name is
\* alphanumeric.
C11_CamelCaseOfFragments ==
    NameReturned =>
        /\ returned[1] = CamelName(Fragments(call.operation.operationId))
        /\ OnlyAlnum(returned[1])

\* the name of the operation that declares only this operationId
NameOf(operationId) == getMethodName([operationId |-> operationId], "")

\* C12 as stated: for every operationId x the name returned, used as an
\* operationId, returns itself (name(name(x)) = name(x)), and the name depends
\* on the operationId string alone.
C12_IdempotentAndPure ==
    /\ NameReturned => returned[1] = NameOf(call.operation.operationId)
    /\ (call.fn = "getMethodName" /\ Len(returned) = 2) => returned[2] = returned[1]

\* C12 amended: for every operationId x made of alphanumeric characters only,
\* name(name(x)) = name(x); and the name depends on the (non-empty)
\* operationId string alone, not on other fields or on the fallback.
C12_IdempotentOnAlnumAndPure ==
    /\ NameReturned => returned[1] = NameOf(call.operation.operationId)
    /\ (call.fn = "getMethodName" /\ Len(returned) = 2
        /\ OnlyAlnum(call.operation.operationId))
          => returned[2] = returned[1]

C12_Witness ==
    /\ call.fn = "getMethodName"
    /\ call.operation.operationId = "getTodoID"
    /\ Has(call.operation, "summary")
    /\ call.fallback = "data"
    /\ returned = <<"gettodoid", "gettodoid">>

----------------------------------------------------------------------------
(* Properties of the import list *)

UsedTypesReturned == call.fn = "extractUsedTypes" /\ Len(returned) >= 1

\* the request and response type strings the operations of the call refer to
ReferencedTypes ==
    UNION {{getResponseType(call.pathInfos[i].operation)}
           \cup (IF Has(call.pathInfos[i].operation, "requestBody")
                 THEN {getRequestType(call.pathInfos[i].operation)} ELSE {}) :
           i \in 1..Len(call.pathInfos)}

\* the type names a type string mentions: its pieces between array, union
\* and intersection markers; an inline object type mentions none
NamesIn(type) ==
    IF Includes(type, "{") THEN {}
    ELSE LET pieces == Split(ReplaceAll(type, " & ", " | "), " | ")
         IN {piece \in {ReplaceAll(ReplaceAll(ReplaceAll(pieces[i], "[]", ""), "(", ""), ")", "") :
                       i \in 1..Len(pieces)} : IsBareIdentifier(piece)}

IsBuiltIn(type) == \E i \in 1..Len(builtInTypes) : builtInTypes[i] = type

DeclaredSchemaNames ==
    IF Has(call.apiData, "components")
    THEN {call.apiData.components.schemas[i][1] :
            i \in 1..Len(call.apiData.components.schemas)}
    ELSE {}

\* C16: extractUsedTypes returns a sorted, duplicate-free list that contains
\* every declared schema name and the base name of every request and response
\* type referenced, contains no built-in type name, and whose entries are bare
\* type names; every import line names one importable identifier.
C16_SortedBareTypeNames ==
    UsedTypesReturned =>
        LET types == returned[1]
            listed == {types[i] : i \in 1..Len(types)}
        IN  /\ \A i \in 1..(Len(types) - 1) : SortsBefore(types[i], types[i + 1])
            /\ DeclaredSchemaNames \subseteq listed
            /\ \A type \in ReferencedTypes :
                  \A name \in NamesIn(type) : ~IsBuiltIn(name) => name \in listed
            /\ \A name \in listed : ~IsBuiltIn(name) /\ IsBareIdentifier(name)
            /\ Len(returned) = 2 =>
                  returned[2] = Join([i \in 1..Len(types) |->
                                        "import { " \o types[i] \o " } from \"./types.ts\";"],
                                     "\n")

----------------------------------------------------------------------------
(* Properties of the security requirements *)

SecurityReturned == call.fn = "getSecurityRequirements" /\ Len(returned) = 1

\* the labels of a requirement list taken alone, on the registry of the call
LabelsOf(list) ==
    getSecurityRequirements([security |-> list],
                            [k \in DOMAIN call.apiData \ {"security"} |-> call.apiData[k]])

\* C17: getSecurityRequirements uses the operation's own security list
\* whenever the operation declares one, an empty list included (no label even
\* when the document declares a global list), the document's global list only
\* when the operation declares none, and returns an empty list when neither
\* exists.
C17_OperationSecurityFirst ==
    SecurityReturned =>
        /\ Has(call.operation, "security") =>
              returned[1] = LabelsOf(call.operation.security)
        /\ (Has(call.operation, "security") /\ call.operation.security = <<>>) =>
              returned[1] = <<>>
        /\ (~Has(call.operation, "security") /\ Has(call.apiData, "security")) =>
              returned[1] = LabelsOf(call.apiData.security)
        /\ (~Has(call.operation, "security") /\ ~Has(call.apiData, "security")) =>
              returned[1] = <<>>

C17_Witness ==
    /\ SecurityReturned
    /\ Has(call.operation, "security") /\ call.operation.security = <<>>
    /\ Has(call.apiData, "security") /\ Len(call.apiData.security) = 1
    /\ Has(call.apiData, "components") /\ Has(call.apiData.components, "securitySchemes")
    /\ returned[1] = <<>>

DeclaredSchemes ==
    IF Has(call.apiData, "components") /\ Has(call.apiData.components, "securitySchemes")
    THEN call.apiData.components.securitySchemes ELSE <<>>

ExpectedLabel(schemeName, scopes) ==
    LET scheme == DeclaredSchemes[schemeName]
    IN  IF scheme.type = "http"
        THEN IF scheme.scheme = "basic" THEN "Basic Authentication"
             ELSE IF scheme.scheme = "bearer" THEN "Bearer Token"
             ELSE "HTTP " \o ToUpperCase(scheme.scheme)
        ELSE IF scheme.type = "apiKey"
        THEN "API Key (" \o scheme.in \o ": " \o scheme.name \o ")"
        ELSE IF scheme.type = "oauth2"
        THEN IF scopes = <<>> THEN "OAuth2" ELSE "OAuth2 (" \o Join(scopes, ", ") \o ")"
        ELSE IF scheme.type = "openIdConnect" THEN "OpenID Connect"
        ELSE schemeName

RECURSIVE ExpectedLabels(_)
ExpectedLabels(entries) ==
    IF Len(entries) = 0 THEN <<>>
    ELSE (IF entries[1][1] \in DOMAIN DeclaredSchemes
          THEN <<ExpectedLabel(entries[1][1], entries[1][2])>> ELSE <<>>)
         \o ExpectedLabels(Tail(entries))

\* C18: for each requirement in list order and each scheme name within it,
\* getSecurityRequirements emits exactly one label, given by the scheme's type,
\* if the scheme is in the registry, and no label if it is not or the registry
\* is absent.
C18_OneLabelPerDeclaredScheme ==
    SecurityReturned =>
        returned[1] = ExpectedLabels(Flatten(securityToCheck(call.operation, call.apiData)))

----------------------------------------------------------------------------
(* Properties of the path analysis *)

PathAnalysed == call.fn = "analyzePath" /\ Len(returned) = 1

\* the segments that can name the resource
NamingSegments ==
    SelectSeq(call.segments, LAMBDA segment : segment.text # "" /\ Char(segment.text, 1) # "{")

\* C19: analyzePath returns as pathParams the interiors of all {...} tokens of
\* the template from left to right, duplicates kept, and as resourceName the
\* last segment that is non-empty and does not start with "{", or "root" when
\* there is none.
C19_PathParamsAndResourceName ==
    PathAnalysed =>
        /\ returned[1].pathParams =
              Flatten([i \in 1..Len(call.segments) |-> call.segments[i].params])
        /\ returned[1].resourceName =
              IF Len(NamingSegments) = 0 THEN "root"
              ELSE NamingSegments[Len(NamingSegments)].text

C19_Witness ==
    /\ PathAnalysed
    /\ call.path = "/{id}/todos/{id}"
    /\ returned[1].pathParams = <<"id", "id">>
    /\ returned[1].resourceName = "todos"

\* C20: isCollection and isResource are complementary booleans: isResource is
\* true exactly when the template contains "{" and isCollection exactly when
\* it does not.
C20_ComplementaryFlags ==
    PathAnalysed =>
        LET braced == \E i \in 1..Len(call.path) : Char(call.path, i) = "{"
        IN  /\ returned[1].isResource \in BOOLEAN
            /\ returned[1].isCollection \in BOOLEAN
            /\ returned[1].isResource = braced
            /\ returned[1].isCollection = ~braced
            /\ returned[1].isCollection # returned[1].isResource

C20_Witness ==
    /\ PathAnalysed
    /\ call.path = "/todos/{id}"
    /\ returned[1].isResource
    /\ ~returned[1].isCollection

----------------------------------------------------------------------------
(* Properties of generateFromOpenAPI *)

Parsed == run.spec.exists /\ run.spec.parses

Performed(effect) == \E i \in 1..Len(effects) : effects[i] = effect

\* the types step of a call that asked for types is over
TypesStepOver == Parsed /\ run.generateTypes /\ Performed("mkdir") /\ step # "types"

NoSchemas(apiData) ==
    \/ ~Has(apiData, "components")
    \/ ~Has(apiData.components, "schemas")
    \/ apiData.components.schemas = <<>>

\* C22: createTypesFromApiData returns the empty string whenever the schema
\* collection is empty or absent, and otherwise a header followed by one
\* declaration per named schema in insertion order; generateFromOpenAPI writes
\* no types artifact and reports no typesPath in exactly that case.
C22_EmptyTypesIffNoSchemas ==
    TypesStepOver =>
        LET apiData == run.spec.apiData
            typesContent == createTypesFromApiData(apiData, now)
            position(i) == IndexOf(typesContent.value,
                                   " " \o apiData.components.schemas[i][1] \o " ")
        IN  IF NoSchemas(apiData)
            THEN /\ typesContent = Return("")
                 /\ ~Performed("write types.ts")
                 /\ ~Has(outcome, "typesPath")
            ELSE /\ ~typesContent.threw
                 /\ StartsWith(typesContent.value,
                               "// Auto-generated TypeScript types from OpenAPI schema\n")
                 /\ \A i \in 1..Len(apiData.components.schemas) : position(i) > 0
                 /\ \A i \in 1..(Len(apiData.components.schemas) - 1) :
                       position(i) < position(i + 1)
                 /\ Performed("write types.ts")
                 /\ Has(outcome, "typesPath")
                 /\ files.artifacts["types.ts"] = typesContent.value

EmptyVerbBlocks ==
    "  get = {\n  };\n\n  post = {\n  };\n\n  put = {\n  };\n\n"
    \o "  delete = {\n  };\n\n  patch = {\n  };\n\n"

\* C23: generateClientFromOpenAPI and createTypesFromApiData never raise on a
\* parsed document that lacks a path set, a components section, a schema
\* registry or a servers list: the client then has five empty verb blocks and
\* the types text is empty.
C23_AbsentSectionsGiveEmptyOutput ==
    Parsed =>
        /\ step # "raised"
        /\ (step = "returned" /\ run.generateClient /\ ~Has(run.spec.apiData, "entries")) =>
              Includes(outcome.clientContent, EmptyVerbBlocks)
        /\ (step = "returned" /\ run.generateTypes
            /\ (~Has(run.spec.apiData, "components")
                \/ ~Has(run.spec.apiData.components, "schemas"))) =>
              ~Has(outcome, "typesContent")

IsWrite(effect) == StartsWith(effect, "write ")

\* C24: the file-existence check comes before any other step: when the spec
\* file does not exist the call raises the not-found error and nothing was
\* read, parsed, created or written; when it exists, reading and parsing come
\* before any write.
C24_ExistenceCheckFirst ==
    /\ step # "exists" => (Len(effects) > 0 /\ effects[1] = "exists")
    /\ (step # "exists" /\ ~run.spec.exists) =>
          /\ step = "raised"
          /\ effects = <<"exists">>
          /\ outcome.error = "OpenAPI specification file not found"
          /\ files = outcome.before
    /\ \A i \in 1..Len(effects) :
          IsWrite(effects[i]) =>
             \E j, k \in 1..(i - 1) :
                j < k /\ effects[j] = "read" /\ effects[k] = "parse"

C24_Witness ==
    /\ ~run.spec.exists
    /\ step = "raised"
    /\ effects = <<"exists">>
    /\ outcome.error = "OpenAPI specification file not found"
    /\ ~files.dir
    /\ files.artifacts = <<>>

\* the text without the timestamp of its generation-timestamp line, the 24
\* characters that toISOString returns
StripTimestamp(text) ==
    Bind(IndexOf(text, "// Generated on: "), LAMBDA at :
        IF at = 0 THEN text
        ELSE SubSeq(text, 1, at + 16) \o SubSeq(text, at + 17 + 24, Len(text)))

\* what a call that ended produced, timestamps apart
Produced(o) ==
    [error |-> IF Has(o, "error") THEN o.error ELSE "",
     types |-> IF Has(o, "typesContent") THEN StripTimestamp(o.typesContent) ELSE "",
     client |-> IF Has(o, "clientContent") THEN StripTimestamp(o.clientContent) ELSE ""]

Ended ==
    {history[i] : i \in 1..Len(history)}
    \cup (IF step \in {"returned", "raised"}
          THEN {[run |-> run, outcome |-> outcome]} ELSE {})

C30_AllOrNothing ==
    step = "raised" => files = outcome.before

----------------------------------------------------------------------------
(* Properties of the Schema Resolver *)

Resolved == clientType # Pending

\* S has type "object", a properties map and, if any, a list as required,
\* and each of its property schemas resolves
IsRecordSchema(s) ==
    /\ s.k = "object"
    /\ Get(s, "type") = Str("object")
    /\ Get(s, "properties").k = "object"
    /\ Get(s, "required").k \in {"undefined", "array"}
    /\ \A i \in 1..Len(Get(s, "properties").e) :
          ~convertSchemaToType(Get(s, "properties").e[i][2]).threw

Populated(s, key) == Truthy(Get(s, key))

NoRefNoComposite(s) ==
    ~Populated(s, "$ref") /\ ~Populated(s, "anyOf") /\ ~Populated(s, "oneOf")
    /\ ~Populated(s, "allOf")

RequiredNames(s) ==
    IF Get(s, "required").k = "array"
    THEN {Get(s, "required").a[i].s :
            i \in {j \in 1..Len(Get(s, "required").a) : Get(s, "required").a[j].k = "string"}}
    ELSE {}

\* the text between "{ " and " }", cut at the field separator
RecordParts(text) ==
    LET inner == SubSeq(text, 3, Len(text) - 2)
    IN  IF inner = "" THEN <<>> ELSE Split(inner, "; ")

\* part is name<?>: type for the entry, name bare or quoted, with the marker
\* present exactly when the name is not required
IsFieldOf(part, entry, required) ==
    LET type == convertSchemaToType(entry[2]).value
        head == SubSeq(part, 1, Len(part) - Len(type) - 2)
        marked == EndsWith(head, "?")
        name == IF marked THEN SubSeq(head, 1, Len(head) - 1) ELSE head
    IN  /\ EndsWith(part, ": " \o type)
        /\ name \in {entry[1], "\"" \o entry[1] \o "\""}
        /\ marked <=> entry[1] \notin required

IsRecordOf(result, s) ==
    LET entries == Get(s, "properties").e
        parts == RecordParts(result.value)
    IN  /\ ~result.threw
        /\ StartsWith(result.value, "{ ")
        /\ EndsWith(result.value, " }")
        /\ Len(parts) = Len(entries)
        /\ \A i \in 1..Len(entries) : IsFieldOf(parts[i], entries[i], RequiredNames(s))

\* C6 as stated: every schema with type "object" and a properties map resolves
\* to an inline record with one field per property, in the order of the
\* properties, a field being marked optional iff its name is not in required.
C6_EveryObjectSchemaIsRecord ==
    (Resolved /\ IsRecordSchema(inSchema)) => IsRecordOf(clientType, inSchema)

\* C6 amended: the same, for the schemas with type "object" and a properties map
\* in which none of $ref, anyOf, oneOf, allOf is populated.
C6_ObjectSchemaIsRecord ==
    (Resolved /\ IsRecordSchema(inSchema) /\ NoRefNoComposite(inSchema))
        => IsRecordOf(clientType, inSchema)

C6_Witness ==
    /\ Resolved /\ IsRecordSchema(inSchema) /\ NoRefNoComposite(inSchema)
    /\ Len(Get(inSchema, "properties").e) = 2
    /\ Get(inSchema, "properties").e[1][1] \notin RequiredNames(inSchema)
    /\ Get(inSchema, "properties").e[2][1] \in RequiredNames(inSchema)

\* The rules in the order of the claim, each with the fields it reads
RuleOrder ==
    <<"$ref", "anyOf", "oneOf", "allOf", "string", "number", "boolean", "array",
      "object", "enum", "fallback">>

RuleApplies(rule, s) ==
    CASE rule = "$ref" -> Populated(s, "$ref")
      [] rule \in CompositeKeys -> IsArray(Get(s, rule))
      [] rule = "string" -> Get(s, "type") = Str("string")
      [] rule = "number" -> Get(s, "type") \in {Str("number"), Str("integer")}
      [] rule = "boolean" -> Get(s, "type") = Str("boolean")
      [] rule = "array" -> Get(s, "type") = Str("array")
      [] rule = "object" -> Get(s, "type") = Str("object")
      [] rule = "enum" -> Populated(s, "enum")
      [] OTHER -> TRUE

RuleFields(rule) ==
    CASE rule \in {"$ref", "anyOf", "oneOf", "allOf", "enum"} -> {rule}
      [] rule \in {"string", "number", "boolean"} -> {"type"}
      [] rule = "array" -> {"type", "items"}
      [] rule = "object" -> {"type", "properties", "required"}
      [] OTHER -> {}

FirstRule(s) ==
    RuleOrder[CHOOSE i \in 1..Len(RuleOrder) :
                /\ RuleApplies(RuleOrder[i], s)
                /\ \A j \in 1..(i - 1) : ~RuleApplies(RuleOrder[j], s)]

OnlyFields(s, keys) == Obj(SelectSeq(s.e, LAMBDA entry : entry[1] \in keys))

\* the union of the enum literals, in declaration order, strings quoted
LiteralUnion(enum) ==
    Join([i \in 1..Len(enum.a) |->
            IF enum.a[i].k = "string" THEN "\"" \o enum.a[i].s \o "\""
            ELSE StringOf(enum.a[i])], " | ")

LastSegment(ref) == LET parts == Split(ref, "/") IN parts[Len(parts)]

\* C7: the rules apply first-match-wins in the order $ref, anyOf, oneOf, allOf,
\* string, number/integer, boolean, array, object, enum, fallback: the result
\* is the result for the fields of the first applicable rule alone; a $ref
\* wins over every other field, a recognised type wins over enum, and enum
\* yields its literals only when no earlier rule applies.
C7_FirstMatchWins ==
    (Resolved /\ inSchema.k = "object") =>
        LET rule == FirstRule(inSchema)
            ref == Get(inSchema, "$ref")
            enum == Get(inSchema, "enum")
        IN  /\ clientType = convertSchemaToType(OnlyFields(inSchema, RuleFields(rule)))
            /\ (ref.k = "string" /\ LastSegment(ref.s) # "")
                  => clientType = Return(LastSegment(ref.s))
            /\ (rule \in {"string", "number", "boolean", "array", "object"}
                /\ IsArray(enum))
                  => clientType # Return(LiteralUnion(enum))
            /\ (rule = "enum" /\ IsArray(enum))
                  => clientType = Return(LiteralUnion(enum))
            /\ (rule = "fallback") => clientType = Return("any")

C7_Witness ==
    /\ Resolved /\ inSchema.k = "object"
    /\ FirstRule(inSchema) \in {"string", "number", "boolean", "array", "object"}
    /\ IsArray(Get(inSchema, "enum"))
    /\ Len(inSchema.e) >= 3

\* C8: convertSchemaToType never raises, whatever value it is given, and
\* returns any whenever no rule applies.
C8_Total ==
    Resolved =>
        /\ ~clientType.threw
        /\ (inSchema.k # "object" \/ FirstRule(inSchema) = "fallback")
              => clientType = Return("any")

\* the name is emitted bare if it matches the identifier pattern and wrapped
\* in double quotes otherwise
EmittedAsField(text, name) ==
    IF IsBareIdentifier(name)
    THEN /\ Includes(text, name \o ": ") \/ Includes(text, name \o "?: ")
         /\ ~Includes(text, "\"" \o name \o "\"")
    ELSE Includes(text, "\"" \o name \o "\": ") \/ Includes(text, "\"" \o name \o "\"?: ")

QueryParamNames(operation) ==
    IF Has(operation, "parameters")
    THEN {operation.parameters[i].name :
            i \in {j \in 1..Len(operation.parameters) : operation.parameters[j].in = "query"}}
    ELSE {}

PropertyNames(s) ==
    {Get(s, "properties").e[i][1] : i \in 1..Len(Get(s, "properties").e)}

\* C9: in the inline records of convertSchemaToType, in the query-parameter
\* type of getQueryParamsType and in the interfaces of generateInterface, a
\* name is quoted iff it fails the bare-identifier pattern.
C9_QuotedIffNotBare ==
    /\ (Resolved /\ IsRecordSchema(inSchema) /\ NoRefNoComposite(inSchema))
          => \A name \in PropertyNames(inSchema) : EmittedAsField(clientType.value, name)
    /\ (queryType # Pending /\ ~queryType.threw)
          => \A name \in QueryParamNames(inOperation) : EmittedAsField(queryType.type, name)
    /\ (interfaceText # Pending /\ IsRecordSchema(inSchema) /\ ~interfaceText.threw)
          => \A name \in PropertyNames(inSchema) : EmittedAsField(interfaceText.value, name)

IsCompositeOnly(s, key) ==
    s.k = "object" /\ Len(s.e) = 1 /\ s.e[1][1] = key /\ IsArray(s.e[1][2])

MemberTypes(list) == [i \in 1..Len(list.a) |-> convertSchemaToType(list.a[i]).value]

\* C10: {anyOf: L} and {oneOf: L} resolve to the same expression, the members'
\* expressions in list order joined by " | ", and {allOf: L} to the same
\* expressions in the same order joined by " & ".
C10_CompositeJoin ==
    \A key \in CompositeKeys :
        (Resolved /\ IsCompositeOnly(inSchema, key)) =>
            LET list == inSchema.e[1][2]
            IN  /\ key = "anyOf" =>
                      /\ clientType = Return(Join(MemberTypes(list), " | "))
                      /\ clientType = convertSchemaToType(Obj(<<<<"oneOf", list>>>>))
                /\ key = "oneOf" =>
                      /\ clientType = Return(Join(MemberTypes(list), " | "))
                      /\ clientType = convertSchemaToType(Obj(<<<<"anyOf", list>>>>))
                /\ key = "allOf" =>
                      /\ clientType = Return(Join(MemberTypes(list), " & "))
                      /\ convertSchemaToType(Obj(<<<<"anyOf", list>>>>))
                            = Return(Join(MemberTypes(list), " | "))

C10_Witness ==
    /\ Resolved
    /\ IsCompositeOnly(inSchema, "oneOf")
    /\ Len(inSchema.e[1][2].a) = 2
    /\ MemberTypes(inSchema.e[1][2])[1] # MemberTypes(inSchema.e[1][2])[2]

\* C28: for every schema the convertSchemaToType of the type-declaration
\* module and the convertSchemaToType of the client generator return the same
\* type expression.
C28_SameTypeExpression ==
    (clientType # Pending /\ declType # Pending) => clientType = declType

====
